---- MODULE Spec2Model ----
(***************************************************************************)
(* Model of the NYS law lookup tool (src/nys_law_cli.py and its front     *)
(* ends): marker_indent, format_statute_text, apply_marker_indents and     *)
(* walk_documents with its callers.                                        *)
(*                                                                         *)
(* A Python str is modelled as a sequence of one-character strings, so     *)
(* "x. 1." is <<"x", ".", " ", "1", ".">>.  Regular expressions are        *)
(* modelled by what the backtracking matcher of Python's re does on the    *)
(* pattern in question; positions are 1-based and an end position is the   *)
(* index of the first character after the match, 0 meaning "no match".     *)
(* The alphabet is ASCII: \d is 0-9, \s is space, tab and line feed.       *)
(***************************************************************************)
EXTENDS Integers, Sequences, FiniteSets, TLC

VARIABLES pc,        \* position of the driver: which calls have been made
          marker,    \* argument of marker_indent
          indent,    \* result of marker_indent(marker)
          body,      \* argument of format_statute_text (a normalized body)
          once,      \* format_statute_text(body)
          twice,     \* format_statute_text(once)
          text,      \* argument of apply_marker_indents
          onceInd,   \* apply_marker_indents(text)
          twiceInd,  \* apply_marker_indents(onceInd)
          root,      \* the document tree of an API response (result.documents)
          out_lines, \* the list walk_documents appends to
          printed,   \* the lines list_statutes prints
          statutes,  \* the string format_statutes returns
          response,  \* what the server does with a request of api_get
          outcome,   \* how the call of api_get ends
          gui,       \* the front end running: "base" (nys_law_gui_base.py)
                     \* or "full" (nys_law_gui.py)
          fields,    \* whether an API key, a law ID, a location ID are there
          phase,     \* "constructed", "mainloop" or "exited"
          busy,      \* the controls of _set_busy are disabled
          workers,   \* the worker threads and where each of them is
          afterq,    \* the callbacks scheduled with master.after(0, ...)
          clicks,    \* the user actions so far
          tally,     \* what became of the failures so far
          law,       \* the law ID of a statute request
          fetched,   \* the statute body the API returned, HTML removed
          shown,     \* per front end, how its statute pipeline ends
          keyInput,  \* --key, the key file and NYS_LAW_API_KEY
          keyResult  \* how load_api_key ends

textVars == <<marker, indent, body, once, twice, text, onceInd, twiceInd>>

walkVars == <<root, out_lines, printed, statutes>>

apiVars == <<response, outcome>>

guiVars == <<gui, fields, phase, busy, workers, afterq, clicks, tally>>

pipeVars == <<law, fetched, shown>>

keyVars == <<keyInput, keyResult>>

\* the variables the text drivers leave alone
restVars == <<walkVars, apiVars, guiVars, pipeVars, keyVars>>

\* the variables the tree drivers leave alone
nonWalkVars == <<textVars, apiVars, guiVars, pipeVars, keyVars>>

\* the variables the request driver leaves alone
nonApiVars == <<textVars, walkVars, guiVars, pipeVars, keyVars>>

\* the variables the front ends leave alone
nonGuiVars == <<textVars, walkVars, apiVars, pipeVars, keyVars>>

\* the variables the statute pipelines leave alone
nonPipeVars == <<textVars, walkVars, apiVars, guiVars, keyVars>>

\* the variables the key driver leaves alone
nonKeyVars == <<textVars, walkVars, apiVars, guiVars, pipeVars>>

vars == <<pc, textVars, restVars>>

-----------------------------------------------------------------------------
(* Character classes *)

Digits == {"0", "1", "2", "3", "4", "5", "6", "7", "8", "9"}

LowerSeq == <<"a", "b", "c", "d", "e", "f", "g", "h", "i", "j", "k", "l", "m",
              "n", "o", "p", "q", "r", "s", "t", "u", "v", "w", "x", "y", "z">>

UpperSeq == <<"A", "B", "C", "D", "E", "F", "G", "H", "I", "J", "K", "L", "M",
              "N", "O", "P", "Q", "R", "S", "T", "U", "V", "W", "X", "Y", "Z">>

LowerLetters == {LowerSeq[k] : k \in 1..26}

UpperLetters == {UpperSeq[k] : k \in 1..26}

Letters == LowerLetters \cup UpperLetters

\* what str.strip() removes by default and what \s matches
Whitespace == {" ", "\t", "\n"}

\* \w
WordChars == Letters \cup Digits \cup {"_"}

\* the class [ivxlcdm]
RomanChars == {"i", "v", "x", "l", "c", "d", "m"}

\* the class [.,;:]
PunctChars == {".", ",", ";", ":"}

\* the characters of str.strip("()")
ParenChars == {"(", ")"}

\* case folding of re.IGNORECASE
ToLower(c) ==
    IF c \in UpperLetters
    THEN LowerSeq[CHOOSE k \in 1..26 : UpperSeq[k] = c]
    ELSE c

-----------------------------------------------------------------------------
(* String helpers *)

\* the least and the greatest of a non-empty set of positions
Least(S) == CHOOSE j \in S : \A k \in S : j <= k

Greatest(S) == CHOOSE j \in S : \A k \in S : j >= k

\* where a run that starts at i in a string of n characters ends, stops the
\* positions from i on that do not belong to the run
FirstStop(i, n, stops) ==
    IF i > n THEN i
    ELSE IF stops = {} THEN n + 1
    ELSE Least(stops)

\* where a run scanned backwards from j ends, stops the positions up to j
\* that do not belong to the run
LastStop(j, stops) ==
    IF j < 1 THEN j
    ELSE IF stops = {} THEN 0
    ELSE Greatest(stops)

\* greedy run of characters of C starting at i: the position after the run
SpanEnd(s, i, C) == FirstStop(i, Len(s), {j \in i..Len(s) : s[j] \notin C})

\* run of characters of C ending at j, scanned backwards: the last position
\* that is not in the run
SpanStart(s, j, C) == LastStop(j, {k \in 1..j : s[k] \notin C})

\* X+ at i for a character class: end position or 0
Plus(s, i, C) ==
    LET e == SpanEnd(s, i, C) IN IF e > i THEN e ELSE 0

\* str.lstrip(chars)
LStripChars(s, C) == SubSeq(s, SpanEnd(s, 1, C), Len(s))

\* str.rstrip(chars)
RStripChars(s, C) == SubSeq(s, 1, SpanStart(s, Len(s), C))

\* str.strip(chars)
StripChars(s, C) == RStripChars(LStripChars(s, C), C)

\* str.strip()
Strip(s) == StripChars(s, Whitespace)

\* "  " * level and friends
RECURSIVE Spaces(_)
Spaces(n) == IF n <= 0 THEN <<>> ELSE <<" ">> \o Spaces(n - 1)

\* sep.join(parts)
RECURSIVE Join(_, _)
Join(parts, sep) ==
    IF Len(parts) = 0 THEN <<>>
    ELSE IF Len(parts) = 1 THEN parts[1]
    ELSE parts[1] \o sep \o Join(Tail(parts), sep)

\* position of the first line feed of s, 0 if there is none
FirstLF(s) ==
    LET e == SpanEnd(s, 1, {s[k] : k \in 1..Len(s)} \ {"\n"})
    IN  IF e <= Len(s) THEN e ELSE 0

\* str.splitlines(): a final line feed does not open another line
RECURSIVE SplitLines(_)
SplitLines(s) ==
    IF Len(s) = 0 THEN <<>>
    ELSE LET k == FirstLF(s)
         IN  IF k = 0 THEN <<s>>
             ELSE <<SubSeq(s, 1, k - 1)>> \o SplitLines(SubSeq(s, k + 1, Len(s)))

\* str.split(): the maximal runs of non-whitespace characters
RECURSIVE SplitWords(_)
SplitWords(s) ==
    LET t == LStripChars(s, Whitespace)
    IN  IF Len(t) = 0 THEN <<>>
        ELSE LET e == SpanEnd(t, 1, {t[k] : k \in 1..Len(t)} \ Whitespace)
             IN  <<SubSeq(t, 1, e - 1)>> \o SplitWords(SubSeq(t, e, Len(t)))

\* text.replace("\\n", " "): every backslash followed by n becomes a space
RECURSIVE ReplaceEscapedNewlines(_)
ReplaceEscapedNewlines(s) ==
    LET hits == {k \in 1..(Len(s) - 1) : s[k] = "\\" /\ s[k + 1] = "n"}
    IN  IF hits = {} THEN s
        ELSE SubSeq(s, 1, Least(hits) - 1) \o <<" ">>
                 \o ReplaceEscapedNewlines(SubSeq(s, Least(hits) + 2, Len(s)))

normalize_statute_text(s) ==
    Strip(Join(SplitWords(ReplaceEscapedNewlines(s)), <<" ">>))

-----------------------------------------------------------------------------
(* marker_indent *)

\* the $ of re: the end of the string, or just before a final line feed
AtDollar(s, j) == j = Len(s) + 1 \/ (j = Len(s) /\ s[j] = "\n")

\* re.match(r"^\d+-[A-Za-z]+$", clean)
IsCompound(clean) ==
    LET d == Plus(clean, 1, Digits)
    IN  /\ d # 0
        /\ d <= Len(clean)
        /\ clean[d] = "-"
        /\ Plus(clean, d + 1, Letters) # 0
        /\ AtDollar(clean, Plus(clean, d + 1, Letters))

\* re.match(r"^\d+$", clean)
IsDigits(clean) ==
    Plus(clean, 1, Digits) # 0 /\ AtDollar(clean, Plus(clean, 1, Digits))

\* re.match(r"^[ivxlcdm]+$", clean, re.IGNORECASE)
IsRoman(clean) ==
    LET C == {c \in Letters : ToLower(c) \in RomanChars}
    IN  Plus(clean, 1, C) # 0 /\ AtDollar(clean, Plus(clean, 1, C))

\* re.match(r"^[A-Z]+$", clean)
IsUpper(clean) ==
    Plus(clean, 1, UpperLetters) # 0
        /\ AtDollar(clean, Plus(clean, 1, UpperLetters))

\* re.match(r"^[a-z]+$", clean)
IsLower(clean) ==
    Plus(clean, 1, LowerLetters) # 0
        /\ AtDollar(clean, Plus(clean, 1, LowerLetters))

\* raw.startswith("(") and raw.endswith(")")
HasParen(raw) ==
    Len(raw) > 0 /\ raw[1] = "(" /\ raw[Len(raw)] = ")"

\* Clean with the parentheses removed only from a marker that has both
CleanOnlyWhenParen(raw) ==
    RStripChars(IF HasParen(raw) THEN StripChars(raw, ParenChars) ELSE raw,
                {"."})

\* raw.strip("()").rstrip(".")
Clean(raw) == RStripChars(StripChars(raw, ParenChars), {"."})

\* MarkerLevel with the two letter tests moved in front of the roman test
MarkerLevelLettersFirst(clean, has_paren) ==
    IF IsCompound(clean) THEN 0
    ELSE IF IsDigits(clean) THEN (IF has_paren THEN 3 ELSE 0)
    ELSE IF IsUpper(clean) THEN (IF has_paren THEN 4 ELSE 1)
    ELSE IF IsLower(clean) THEN 1
    ELSE IF IsRoman(clean) THEN 2
    ELSE 0

\* MarkerLevel with lowercase letters raised by parentheses like uppercase ones
MarkerLevelLowerRaised(clean, has_paren) ==
    IF IsCompound(clean) THEN 0
    ELSE IF IsDigits(clean) THEN (IF has_paren THEN 3 ELSE 0)
    ELSE IF IsRoman(clean) THEN 2
    ELSE IF IsUpper(clean) THEN (IF has_paren THEN 4 ELSE 1)
    ELSE IF IsLower(clean) THEN (IF has_paren THEN 4 ELSE 1)
    ELSE 0

\* MarkerLevel with the compound branch given the level of the digit branch
MarkerLevelCompoundAsDigits(clean, has_paren) ==
    IF IsCompound(clean) THEN (IF has_paren THEN 3 ELSE 0)
    ELSE IF IsDigits(clean) THEN (IF has_paren THEN 3 ELSE 0)
    ELSE IF IsRoman(clean) THEN 2
    ELSE IF IsUpper(clean) THEN (IF has_paren THEN 4 ELSE 1)
    ELSE IF IsLower(clean) THEN 1
    ELSE 0

\* MarkerLevel with the fallback at the level of a letter
MarkerLevelFallbackOne(clean, has_paren) ==
    IF IsCompound(clean) THEN 0
    ELSE IF IsDigits(clean) THEN (IF has_paren THEN 3 ELSE 0)
    ELSE IF IsRoman(clean) THEN 2
    ELSE IF IsUpper(clean) THEN (IF has_paren THEN 4 ELSE 1)
    ELSE IF IsLower(clean) THEN 1
    ELSE 1

\* the if/elif chain of marker_indent
MarkerLevel(clean, has_paren) ==
    IF IsCompound(clean) THEN 0
    ELSE IF IsDigits(clean) THEN (IF has_paren THEN 3 ELSE 0)
    ELSE IF IsRoman(clean) THEN 2
    ELSE IF IsUpper(clean) THEN (IF has_paren THEN 4 ELSE 1)
    ELSE IF IsLower(clean) THEN 1
    ELSE 0

marker_indent(m) ==
    LET raw == Strip(m)
    IN  Spaces(2 * MarkerLevel(Clean(raw), HasParen(raw)))

-----------------------------------------------------------------------------
(* The marker token of the two patterns:                                   *)
(*   (?:\(?\d+[)\.]|\(?[A-Za-z]+[)\.]|\d+-[A-Za-z][)\.]?)                  *)

\* \(? : greedy; giving the parenthesis back never helps, because the next
\* item is a digit or a letter
OptParen(s, i) == IF i <= Len(s) /\ s[i] = "(" THEN i + 1 ELSE i

\* [)\.] at j
CloseAt(s, j) == j <= Len(s) /\ s[j] \in {")", "."}

\* \(?\d+[)\.]
Alt1End(s, i) ==
    LET d == Plus(s, OptParen(s, i), Digits)
    IN  IF d # 0 /\ CloseAt(s, d) THEN d + 1 ELSE 0

\* \(?[A-Za-z]+[)\.]
Alt2End(s, i) ==
    LET d == Plus(s, OptParen(s, i), Letters)
    IN  IF d # 0 /\ CloseAt(s, d) THEN d + 1 ELSE 0

\* \d+-[A-Za-z] : the end of the compound token without its optional closer
Alt3End(s, i) ==
    LET d == Plus(s, i, Digits)
    IN  IF d # 0 /\ d + 1 <= Len(s) /\ s[d] = "-" /\ s[d + 1] \in Letters
        THEN d + 2 ELSE 0

\* \d+-[A-Za-z][)\.]? with the closer taken
Alt3LongEnd(s, i) ==
    IF Alt3End(s, i) # 0 /\ CloseAt(s, Alt3End(s, i))
    THEN Alt3End(s, i) + 1 ELSE 0

\* the ends the matcher tries at i, in the order it tries them
MarkerCandidates(s, i) ==
    <<Alt1End(s, i), Alt2End(s, i), Alt3LongEnd(s, i), Alt3End(s, i)>>

\* the end of the marker at i: the first candidate after which the rest of
\* the pattern matches (conts: the positions where it does), 0 if there is
\* none
MarkerEnd(s, i, conts) ==
    LET c == MarkerCandidates(s, i)
        ok == {k \in 1..4 : c[k] # 0 /\ c[k] \in conts}
    IN  IF ok = {} THEN 0
        ELSE c[CHOOSE k \in ok : \A l \in ok : k <= l]

-----------------------------------------------------------------------------
(* format_statute_text *)

\* (?:and|or) under re.IGNORECASE
ConjEnd(s, i) ==
    IF i + 2 <= Len(s) /\ ToLower(s[i]) = "a" /\ ToLower(s[i + 1]) = "n"
           /\ ToLower(s[i + 2]) = "d"
    THEN i + 3
    ELSE IF i + 1 <= Len(s) /\ ToLower(s[i]) = "o" /\ ToLower(s[i + 1]) = "r"
    THEN i + 2
    ELSE 0

\* the marker followed by \s+
MarkerThenSpace(s, i) ==
    MarkerEnd(s, i, {j \in 1..(Len(s) + 1) : Plus(s, j, Whitespace) # 0})

NoMatch ==
    [end |-> 0, punct |-> <<>>, conj |-> <<>>, marker |-> <<>>, mstart |-> 0]

\* MatchAt with any character that is no whitespace in the place of the
\* punctuation
MatchAtAfterAnyWord(s, i) ==
    IF ~(i <= Len(s) /\ s[i] \notin Whitespace) THEN NoMatch
    ELSE
    LET w1 == Plus(s, i + 1, Whitespace)
        ce == IF w1 = 0 THEN 0 ELSE ConjEnd(s, w1)
        w2 == IF ce = 0 THEN 0 ELSE Plus(s, ce, Whitespace)
        m2 == IF w2 = 0 THEN 0 ELSE MarkerThenSpace(s, w2)
        m1 == IF w1 = 0 THEN 0 ELSE MarkerThenSpace(s, w1)
    IN  IF m2 # 0
        THEN [end    |-> Plus(s, m2, Whitespace),
              punct  |-> <<s[i]>>,
              conj   |-> SubSeq(s, w1, w2 - 1),
              marker |-> SubSeq(s, w2, m2 - 1),
              mstart |-> w2]
        ELSE IF m1 # 0
        THEN [end    |-> Plus(s, m1, Whitespace),
              punct  |-> <<s[i]>>,
              conj   |-> <<>>,
              marker |-> SubSeq(s, w1, m1 - 1),
              mstart |-> w1]
        ELSE NoMatch

\* the pattern of format_statute_text tried at position i:
\*   ([.,;:])\s+((?:and|or)\s+)?(marker)\s+
\* Every \s+ is followed by an item that starts with a non-space character,
\* so its greedy run is the only length that can match.
MatchAt(s, i) ==
    IF ~(i <= Len(s) /\ s[i] \in PunctChars) THEN NoMatch
    ELSE
    LET w1 == Plus(s, i + 1, Whitespace)
        ce == IF w1 = 0 THEN 0 ELSE ConjEnd(s, w1)
        w2 == IF ce = 0 THEN 0 ELSE Plus(s, ce, Whitespace)
        m2 == IF w2 = 0 THEN 0 ELSE MarkerThenSpace(s, w2)
        m1 == IF w1 = 0 THEN 0 ELSE MarkerThenSpace(s, w1)
    IN  IF m2 # 0
        THEN [end    |-> Plus(s, m2, Whitespace),
              punct  |-> <<s[i]>>,
              conj   |-> SubSeq(s, w1, w2 - 1),
              marker |-> SubSeq(s, w2, m2 - 1),
              mstart |-> w2]
        ELSE IF m1 # 0
        THEN [end    |-> Plus(s, m1, Whitespace),
              punct  |-> <<s[i]>>,
              conj   |-> <<>>,
              marker |-> SubSeq(s, w1, m1 - 1),
              mstart |-> w1]
        ELSE NoMatch

\* repl with the conjunction moved to the new line, in front of the marker
ReplConjOnNewLine(m) ==
    LET conj == Strip(m.conj)
    IN  IF conj # <<>>
        THEN m.punct \o <<"\n">> \o marker_indent(m.marker) \o conj \o <<" ">>
                 \o m.marker \o <<" ">>
        ELSE m.punct \o <<"\n">> \o marker_indent(m.marker) \o m.marker
                 \o <<" ">>

\* repl without conj.strip(): group 2 keeps the whitespace it captured
ReplConjUnstripped(m) ==
    IF m.conj # <<>>
    THEN m.punct \o <<" ">> \o m.conj \o <<"\n">>
             \o marker_indent(m.marker) \o m.marker \o <<" ">>
    ELSE m.punct \o <<"\n">> \o marker_indent(m.marker) \o m.marker
             \o <<" ">>

\* the replacement function repl of format_statute_text
repl(m) ==
    LET conj == Strip(m.conj)
    IN  IF conj # <<>>
        THEN m.punct \o <<" ">> \o conj \o <<"\n">>
                 \o marker_indent(m.marker) \o m.marker \o <<" ">>
        ELSE m.punct \o <<"\n">> \o marker_indent(m.marker) \o m.marker
                 \o <<" ">>

\* the match of the pattern at every position of s
Matches(s) == [j \in 1..Len(s) |-> MatchAt(s, j)]

\* pattern.sub(repl, text) from position i on, ms the matches at the
\* positions of s: the text up to the leftmost match, its replacement, and
\* the same from the end of that match on
RECURSIVE SubFrom(_, _, _)
SubFrom(s, ms, i) ==
    LET hits == {j \in i..Len(s) : ms[j].end # 0}
    IN  IF hits = {} THEN SubSeq(s, i, Len(s))
        ELSE SubSeq(s, i, Least(hits) - 1) \o repl(ms[Least(hits)])
                 \o SubFrom(s, ms, ms[Least(hits)].end)

\* Sub with the marker looked at but not consumed: the line break goes in
\* front of the marker and the search resumes at the marker, whose closing
\* period can then open the next match
RECURSIVE SubRescan(_, _)
SubRescan(s, i) ==
    IF i > Len(s) THEN <<>>
    ELSE LET m == MatchAt(s, i)
         IN  IF m.end # 0
             THEN m.punct
                      \o (IF Strip(m.conj) # <<>>
                          THEN <<" ">> \o Strip(m.conj) ELSE <<>>)
                      \o <<"\n">> \o marker_indent(m.marker)
                      \o SubRescan(s, m.mstart)
             ELSE <<s[i]>> \o SubRescan(s, i + 1)

\* pattern.sub(repl, text) from position i on: one pass from left to right,
\* the search resumes after the end of each match
Sub(s, i) == SubFrom(s, Matches(s), i)

\* format_statute_text without the final strip()
FormatUnstripped(s) == Sub(s, 1)

format_statute_text(s) == Strip(Sub(s, 1))

-----------------------------------------------------------------------------
(* apply_marker_indents *)

\* \b at j: exactly one of the characters before and after j is a word
\* character
WordBoundary(s, j) ==
    (j - 1 >= 1 /\ j - 1 <= Len(s) /\ s[j - 1] \in WordChars)
        # (j <= Len(s) /\ s[j] \in WordChars)

\* pattern.match(line): ^\s*(marker)\b ; the matched marker, or <<>>
LineMarker(line) ==
    LET w == SpanEnd(line, 1, Whitespace)
        e == MarkerEnd(line, w,
                       {j \in 1..(Len(line) + 1) : WordBoundary(line, j)})
    IN  IF e = 0 THEN <<>> ELSE SubSeq(line, w, e - 1)

\* the body of the loop of apply_marker_indents
IndentLine(line) ==
    IF LineMarker(line) = <<>> THEN line
    ELSE marker_indent(LineMarker(line)) \o Strip(line)

apply_marker_indents(s) ==
    LET lines == SplitLines(s)
    IN  Join([k \in 1..Len(lines) |-> IndentLine(lines[k])], <<"\n">>)

-----------------------------------------------------------------------------
(* walk_documents and its callers list_statutes and format_statutes *)

\* A document node is a record of its JSON fields.  A field holds a string,
\* Null (the JSON value null, None in Python) or Absent (no such key).
\* hasDocuments says whether the node has a "documents" entry; items are its
\* "items".  A "documents" entry that is null or not an object is not
\* modelled.
Null == <<"<null>">>

Absent == <<"<absent>">>

\* dict.get(key, default)
DictGet(v, default) == IF v = Absent THEN default ELSE v

\* truth value of a string or None
Truthy(v) == v # Null /\ v # Absent /\ v # <<>>

\* str(v) as str.format applies it
Str(v) == IF v = Null THEN <<"N", "o", "n", "e">> ELSE v

StrSECTION == <<"S", "E", "C", "T", "I", "O", "N">>

\* label_parts, label: the node's own label with its " - "
LabelOf(doc_type, doc_level) ==
    LET label == Strip(Join(SelectSeq(<<doc_type, doc_level>>, Truthy), <<" ">>))
    IN  IF label # <<>> THEN label \o <<" ", "-", " ">> ELSE label

\* path: " / ".join([p for p in ancestors if p])
PathOf(ancestors) == Join(SelectSeq(ancestors, Truthy), <<" ", "/", " ">>)

\* SectionLine without the final strip(" /")
SectionLineUnstripped(path, label, title, location_id) ==
    path \o <<" ", ":", ":", " ">> \o label \o Str(title)
        \o <<" ", "(", "l", "o", "c", "a", "t", "i", "o", "n", "I", "d", "=">> \o Str(location_id) \o <<")">>

\* the line of a SECTION node: the format and line.strip(" /")
SectionLine(path, label, title, location_id) ==
    StripChars(path \o <<" ", ":", ":", " ">> \o label \o Str(title)
                   \o <<" ", "(", "l", "o", "c", "a", "t", "i", "o", "n", "I", "d", "=">> \o Str(location_id) \o <<")">>,
               {" ", "/"})

\* "{0} {1}".format(doc_type, doc_level).strip()
AncestorLabel(doc_type, doc_level) ==
    Strip(Str(doc_type) \o <<" ">> \o Str(doc_level))

\* doc.get("documents", {}).get("items", [])
ItemsOf(doc) == IF doc.hasDocuments THEN doc.items ELSE <<>>

RECURSIVE walk_documents(_, _, _)

\* WalkItems with the children taken from the last to the first
RECURSIVE WalkItemsReversed(_, _, _, _)
WalkItemsReversed(items, ancestors, label, lines) ==
    IF items = <<>> THEN lines
    ELSE WalkItemsReversed(SubSeq(items, 1, Len(items) - 1), ancestors, label,
             walk_documents(items[Len(items)], Append(ancestors, label), lines))

\* the loop over the children: each child gets ancestors + [label]
RECURSIVE WalkItems(_, _, _, _)
WalkItems(items, ancestors, label, lines) ==
    IF items = <<>> THEN lines
    ELSE WalkItems(Tail(items), ancestors, label,
             walk_documents(Head(items), Append(ancestors, label), lines))

\* walk_documents that does not look below a SECTION node
WalkSectionsAsLeaves(doc, ancestors, lines) ==
    LET doc_type    == DictGet(doc.docType, <<>>)
        title       == IF Truthy(doc.title) THEN doc.title ELSE <<>>
        doc_level   == DictGet(doc.docLevelId, <<>>)
        location_id == DictGet(doc.locationId, <<>>)
    IN  IF doc_type = StrSECTION
        THEN Append(lines, SectionLine(PathOf(ancestors),
                                       LabelOf(doc_type, doc_level),
                                       title, location_id))
        ELSE WalkItems(ItemsOf(doc), ancestors,
                       AncestorLabel(doc_type, doc_level), lines)

\* walk_documents(doc, ancestors, out_lines): the value of out_lines after
\* the call
walk_documents(doc, ancestors, lines) ==
    LET doc_type    == DictGet(doc.docType, <<>>)
        title       == IF Truthy(doc.title) THEN doc.title ELSE <<>>
        doc_level   == DictGet(doc.docLevelId, <<>>)
        location_id == DictGet(doc.locationId, <<>>)
        lines1      == IF doc_type = StrSECTION
                       THEN Append(lines,
                                SectionLine(PathOf(ancestors),
                                            LabelOf(doc_type, doc_level),
                                            title, location_id))
                       ELSE lines
    IN  WalkItems(ItemsOf(doc), ancestors,
                  AncestorLabel(doc_type, doc_level), lines1)

\* the JSON object {} : it is false in "if not root", like a missing
\* "documents" entry
EmptyObject ==
    [docType |-> Absent, docLevelId |-> Absent, title |-> Absent,
     locationId |-> Absent, hasDocuments |-> FALSE, items |-> <<>>]

NoDocumentsMessage == <<"N", "o", " ", "d", "o", "c", "u", "m", "e", "n", "t", "s", " ", "r", "e", "t", "u", "r", "n", "e", "d", " ", "f", "o", "r", " ", "t", "h", "a", "t", " ", "l", "a", "w", ".">>

NoSectionMessage == <<"N", "o", " ", "S", "E", "C", "T", "I", "O", "N", " ", "d", "o", "c", "u", "m", "e", "n", "t", "s", " ", "f", "o", "u", "n", "d", ".">>

\* list_statutes without the test for an empty result
ListStatutesNoEmptyTest(r) ==
    IF r = EmptyObject THEN <<NoDocumentsMessage>>
    ELSE walk_documents(r, <<>>, <<>>)

\* list_statutes(data) for data["result"]["documents"] = r: the lines printed
list_statutes(r) ==
    IF r = EmptyObject THEN <<NoDocumentsMessage>>
    ELSE IF walk_documents(r, <<>>, <<>>) = <<>> THEN <<NoSectionMessage>>
    ELSE walk_documents(r, <<>>, <<>>)

\* format_statutes(data) of nys_law_gui_base.py: the string returned
format_statutes(r) ==
    IF r = EmptyObject THEN NoDocumentsMessage
    ELSE IF walk_documents(r, <<>>, <<>>) = <<>> THEN NoSectionMessage
    ELSE Join(walk_documents(r, <<>>, <<>>), <<"\n">>)

-----------------------------------------------------------------------------
(* api_get: the request, the decoding of the body and json.loads *)

\* str(n) of a natural number
DecimalDigits == <<"0", "1", "2", "3", "4", "5", "6", "7", "8", "9">>

RECURSIVE ToDecimal(_)
ToDecimal(n) ==
    IF n < 10 THEN <<DecimalDigits[n + 1]>>
    ELSE ToDecimal(n \div 10) \o <<DecimalDigits[(n % 10) + 1]>>

NoText == [ok |-> FALSE, text |-> <<>>]

\* bytes.decode("utf-8") from position i on, acc the code points so far:
\* a byte below 128 is a character, a byte 194..223 followed by a byte
\* 128..191 is a two-byte character, anything else is an error (the bodies
\* drawn hold no lead byte of a longer form)
RECURSIVE Utf8DecodeFrom(_, _, _)
Utf8DecodeFrom(raw, i, acc) ==
    IF i > Len(raw) THEN [ok |-> TRUE, text |-> acc]
    ELSE IF raw[i] < 128 THEN Utf8DecodeFrom(raw, i + 1, Append(acc, raw[i]))
    ELSE IF /\ raw[i] \in 194..223
            /\ i < Len(raw)
            /\ raw[i + 1] \in 128..191
         THEN Utf8DecodeFrom(raw, i + 2,
                  Append(acc, (raw[i] - 192) * 64 + (raw[i + 1] - 128)))
    ELSE NoText

Utf8Decode(raw) == Utf8DecodeFrom(raw, 1, <<>>)

\* a JSON value in Python: an int, a str, a list or a dict
JsonInt(n) == [type |-> "int", num |-> n, str |-> <<>>, items |-> <<>>]

JsonStr(s) == [type |-> "str", num |-> 0, str |-> s, items |-> <<>>]

JsonList(vs) == [type |-> "list", num |-> 0, str |-> <<>>, items |-> vs]

JsonDict == [type |-> "dict", num |-> 0, str |-> <<>>, items |-> <<>>]

NoJson == [end |-> 0, value |-> JsonDict]

JsonWhitespace == {32, 9, 10, 13}

JsonDigits == 48..57

\* the value of a run of decimal digits
RECURSIVE DecimalValue(_)
DecimalValue(ds) ==
    IF ds = <<>> THEN 0
    ELSE 10 * DecimalValue(SubSeq(ds, 1, Len(ds) - 1)) + (ds[Len(ds)] - 48)

\* the position of the first code point c from i on, 0 if there is none
RECURSIVE FindFrom(_, _, _)
FindFrom(s, i, c) ==
    IF i > Len(s) THEN 0
    ELSE IF s[i] = c THEN i
    ELSE FindFrom(s, i + 1, c)

RECURSIVE JsonValue(_, _), JsonElements(_, _, _)

\* the JSON value that starts at i: the position after it and the value, or
\* NoJson.  Strings hold no escapes, numbers are runs of digits without a
\* leading zero, and an object is the empty object: the bodies drawn hold no
\* backslash, sign, fraction, letter or colon.
JsonValue(s, i) ==
    IF i > Len(s) THEN NoJson
    ELSE IF s[i] = 34 THEN
        LET j == FindFrom(s, i + 1, 34)
        IN  IF j = 0 \/ \E k \in (i + 1)..(j - 1) : s[k] < 32 \/ s[k] = 92
            THEN NoJson
            ELSE [end |-> j + 1, value |-> JsonStr(SubSeq(s, i + 1, j - 1))]
    ELSE IF s[i] \in 49..57 THEN
        LET e == SpanEnd(s, i, JsonDigits)
        IN  [end |-> e, value |-> JsonInt(DecimalValue(SubSeq(s, i, e - 1)))]
    ELSE IF s[i] = 48 THEN [end |-> i + 1, value |-> JsonInt(0)]
    ELSE IF s[i] = 91 THEN
        LET k == SpanEnd(s, i + 1, JsonWhitespace)
        IN  IF k <= Len(s) /\ s[k] = 93
            THEN [end |-> k + 1, value |-> JsonList(<<>>)]
            ELSE JsonElements(s, k, <<>>)
    ELSE IF s[i] = 123 THEN
        LET k == SpanEnd(s, i + 1, JsonWhitespace)
        IN  IF k <= Len(s) /\ s[k] = 125
            THEN [end |-> k + 1, value |-> JsonDict]
            ELSE NoJson
    ELSE NoJson

\* the elements of a list from i on, after vs: value, then "," or "]"
JsonElements(s, i, vs) ==
    LET v == JsonValue(s, i)
        k == SpanEnd(s, v.end, JsonWhitespace)
    IN  IF v.end = 0 \/ k > Len(s) THEN NoJson
        ELSE IF s[k] = 93
             THEN [end |-> k + 1, value |-> JsonList(Append(vs, v.value))]
        ELSE IF s[k] = 44
             THEN JsonElements(s, SpanEnd(s, k + 1, JsonWhitespace),
                               Append(vs, v.value))
        ELSE NoJson

\* json.loads(text): one value between whitespace, or NoJson for
\* JSONDecodeError
json_loads(s) ==
    LET v == JsonValue(s, SpanEnd(s, 1, JsonWhitespace))
    IN  IF v.end # 0 /\ SpanEnd(s, v.end, JsonWhitespace) = Len(s) + 1
        THEN v ELSE NoJson

\* how a call ends: kind is "return", "SystemExit" or the name of another
\* exception that leaves api_get
Returns(v) == [kind |-> "return", value |-> v, message |-> <<>>]

Raises(k, m) == [kind |-> k, value |-> JsonDict, message |-> m]

RequestFailed == <<"A", "P", "I", " ", "r", "e", "q", "u", "e", "s", "t", " ", "f", "a", "i", "l", "e", "d", ":", " ">>

NotValidJson == <<"A", "P", "I", " ", "r", "e", "s", "p", "o", "n", "s", "e", " ", "w", "a", "s", " ", "n", "o", "t", " ", "v", "a", "l", "i", "d", " ", "J", "S", "O", "N", ".">>

\* api_get(path, key, params) when the server answers with resp
api_get(resp) ==
    IF resp.kind = "HTTPError"
    THEN Raises("SystemExit",
                RequestFailed \o ToDecimal(resp.code) \o <<" ">> \o resp.reason)
    ELSE IF resp.kind = "URLError"
    THEN Raises("SystemExit", RequestFailed \o resp.reason)
    ELSE IF ~Utf8Decode(resp.raw).ok THEN Raises("UnicodeDecodeError", <<>>)
    ELSE IF json_loads(Utf8Decode(resp.raw).text).end = 0
    THEN Raises("SystemExit", NotValidJson)
    ELSE Returns(json_loads(Utf8Decode(resp.raw).text).value)

-----------------------------------------------------------------------------
(* wrap_text and the statute pipelines of the three front ends *)

\* the chunks textwrap splits a paragraph into, from position i on: words and
\* runs of spaces in turn.  The paragraphs hold no tab, and no hyphen between
\* letters, at which textwrap would split a word.
RECURSIVE Chunks(_, _)
Chunks(s, i) ==
    IF i > Len(s) THEN <<>>
    ELSE LET e == IF s[i] = " " THEN SpanEnd(s, i, {" "})
                  ELSE SpanEnd(s, i, {s[k] : k \in 1..Len(s)} \ {" "})
         IN  <<SubSeq(s, i, e - 1)>> \o Chunks(s, e)

IsBlank(chunk) == \A k \in 1..Len(chunk) : chunk[k] = " "

\* how many of the first chunks of cs fit into room characters
RECURSIVE FitCount(_, _)
FitCount(cs, room) ==
    IF cs = <<>> \/ Len(Head(cs)) > room THEN 0
    ELSE 1 + FitCount(Tail(cs), room - Len(Head(cs)))

\* the concatenation of the chunks
RECURSIVE Concat(_)
Concat(cs) == IF cs = <<>> THEN <<>> ELSE Head(cs) \o Concat(Tail(cs))

\* TextWrapper._wrap_chunks: the lines of at most width characters, lines
\* the lines made so far.  A line takes the chunks that fit; a chunk longer
\* than the width is cut; the spaces at the start of a line after the first
\* and at the end of every line are dropped.
RECURSIVE WrapChunks(_, _, _)
WrapChunks(chunks, width, lines) ==
    LET cs    == IF lines # <<>> /\ chunks # <<>> /\ IsBlank(Head(chunks))
                 THEN Tail(chunks) ELSE chunks
        n     == FitCount(cs, width)
        used  == Len(Concat(SubSeq(cs, 1, n)))
        long  == n < Len(cs) /\ Len(cs[n + 1]) > width
        piece == IF long THEN <<SubSeq(cs[n + 1], 1, width - used)>> ELSE <<>>
        rest  == IF long
                 THEN <<SubSeq(cs[n + 1], width - used + 1, Len(cs[n + 1]))>>
                          \o SubSeq(cs, n + 2, Len(cs))
                 ELSE SubSeq(cs, n + 1, Len(cs))
        cur   == SubSeq(cs, 1, n) \o piece
        kept  == IF cur # <<>> /\ IsBlank(cur[Len(cur)])
                 THEN SubSeq(cur, 1, Len(cur) - 1) ELSE cur
    IN  IF cs = <<>> THEN lines
        ELSE WrapChunks(rest, width,
                        IF kept # <<>> THEN Append(lines, Concat(kept))
                        ELSE lines)

\* textwrap.fill(paragraph, width=width)
Fill(paragraph, width) ==
    Join(WrapChunks(Chunks(paragraph, 1), width, <<>>), <<"\n">>)

\* wrap_text(text, width)
wrap_text(t, width) ==
    LET ps == SplitLines(t)
    IN  Strip(Join([k \in 1..Len(ps) |->
                       IF Strip(ps[k]) = <<>> THEN <<>>
                       ELSE Fill(Strip(ps[k]), width)],
                   <<"\n">>))

\* str.upper()
ToUpper(c) ==
    IF c \in LowerLetters
    THEN UpperSeq[CHOOSE k \in 1..26 : LowerSeq[k] = c]
    ELSE c

UpperStr(s) == [k \in 1..Len(s) |-> ToUpper(s[k])]

\* the functions nys_law_cli defines
CliNames ==
    {"strip_html", "load_api_key", "api_get",
     "print_laws", "walk_documents", "list_statutes",
     "get_text_from_doc", "wrap_text", "normalize_statute_text",
     "marker_indent", "apply_marker_indents", "format_statute_text",
     "write_pdf", "_wrap_preserve_indent", "cmd_list_laws",
     "cmd_structure", "cmd_statute", "build_parser",
     "main"}

\* the parameters of write_pdf
WritePdfParams == {"path", "title", "body", "header_lines"}

\* the title get_text_from_doc returns with the body
StatuteTitle == <<"S", "h", "o", "r", "t", " ", "t", "i", "t", "l", "e">>

\* "{0}\n\n{1}".format(title, text).strip()
Display(title, t) == Strip(title \o <<"\n", "\n">> \o t)

\* how a pipeline ends: kind says what the front end did with the text
\* ("printed", "shown", "saved", "print job") or names the exception raised;
\* text is the pipeline's text, output what is displayed
Done(k, t) == [kind |-> k, text |-> t, output |-> Display(StatuteTitle, t)]

Raised(k) == [kind |-> k, text |-> <<>>, output |-> <<>>]

\* cmd_statute: normalize, format, re-indent, print
cmd_statute(b) ==
    Done("printed",
         apply_marker_indents(format_statute_text(normalize_statute_text(b))))

\* App._fetch_statute_text of nys_law_gui.py: for the law PEN it calls
\* law_api.apply_pen_last_sentence_break
FetchStatuteText(law_id, b) ==
    IF UpperStr(law_id) = <<"P", "E", "N">>
       /\ "apply_pen_last_sentence_break" \notin CliNames
    THEN Raised("AttributeError")
    ELSE Done("fetched",
              apply_marker_indents(
                  format_statute_text(normalize_statute_text(b))))

\* work() of App._run_statute_text of nys_law_gui.py after
\* _fetch_statute_text ended as f: an exception leaves work(), a text is shown
ShowFetched(f) == IF f.kind # "fetched" THEN f ELSE Done("shown", f.text)

\* work() of App._run_statute_text of nys_law_gui.py
GuiStatuteText(law_id, b) == ShowFetched(FetchStatuteText(law_id, b))

\* what nys_law_gui.py uses of nys_law_cli (law_api.<name>)
GuiUsedNames ==
    {"walk_documents", "load_api_key", "api_get", "get_text_from_doc",
     "strip_html", "normalize_statute_text", "format_statute_text",
     "apply_marker_indents", "apply_pen_last_sentence_break", "write_pdf"}

\* the keyword arguments nys_law_gui.py passes to write_pdf
WritePdfKeywords == {"header_lines", "highlight_term"}

\* law_api.write_pdf called with the keyword arguments kw
WritePdfCall(kw) ==
    IF "write_pdf" \notin CliNames THEN "AttributeError"
    ELSE IF ~(kw \subseteq WritePdfParams) THEN "TypeError"
    ELSE "written"

\* work() of App._run_save_pdf and of App._run_print of nys_law_gui.py after
\* _fetch_statute_text ended as f: write_pdf is called with the keywords, and
\* k is what is reported when it has written the file
WriteFetched(f, k) ==
    LET w == WritePdfCall(WritePdfKeywords)
    IN  IF f.kind # "fetched" THEN f
        ELSE IF w # "written" THEN Raised(w)
        ELSE Done(k, f.text)

\* work() of App._run_save_pdf of nys_law_gui.py
GuiSavePdf(law_id, b) == WriteFetched(FetchStatuteText(law_id, b), "saved")

\* work() of App._run_print of nys_law_gui.py
GuiPrint(law_id, b) == WriteFetched(FetchStatuteText(law_id, b), "print job")

\* App._get_statute_text and work() of App._run_statute_text of
\* nys_law_gui_base.py: normalize, format, wrap_text(width=90)
BaseStatuteText(b) ==
    Done("shown",
         wrap_text(format_statute_text(normalize_statute_text(b)), 90))

-----------------------------------------------------------------------------
(* load_api_key *)

\* how load_api_key ends: it returns a key or raises SystemExit with a
\* message
KeyReturned(v) == [kind |-> "return", value |-> v]

KeyExit(m) == [kind |-> "SystemExit", value |-> m]

MissingApiKey == <<"M", "i", "s", "s", "i", "n", "g", " ", "A", "P", "I", " ", "k", "e", "y", ".", " ", "P", "r", "o", "v", "i", "d", "e", " ", "-", "-", "k", "e", "y", ",", " ", "-", "-", "k", "e", "y", "-", "f", "i", "l", "e", ",", " ", "o", "r", " ", "s", "e", "t", " ", "N", "Y", "S", "_", "L", "A", "W", "_", "A", "P", "I", "_", "K", "E", "Y", ".">>

\* load_api_key(key, key_file) with the file system and the environment of
\* the call: key is a string or None, key_file a path or None, file the text
\* of the file at the path (Absent when there is no such file), env the value
\* of NYS_LAW_API_KEY (Absent when it is not set)
load_api_key(key, key_file, file, env) ==
    IF Truthy(key) THEN KeyReturned(Strip(key))
    ELSE IF Truthy(key_file) /\ file # Absent /\ Strip(file) # <<>>
    THEN KeyReturned(Strip(file))
    ELSE IF Truthy(env) THEN KeyReturned(Strip(env))
    ELSE KeyExit(MissingApiKey)

-----------------------------------------------------------------------------
(* Inputs *)

\* longest marker body drawn from CoreAlphabet
MaxCore == 3

\* most words of a drawn statute body
MaxWords == 4

\* most lines of a drawn text
MaxLines == 2

\* all sequences over A of length at most n
SeqsUpTo(A, n) == UNION {{<<>> \o f : f \in [1..k -> A]} : k \in 0..n}

CoreAlphabet == {"2", "-", "a", "i", "B", "D"}

MarkerPrefixes == {<<>>, <<"(">>}

MarkerSuffixes == {<<>>, <<".">>, <<")">>, <<".", ")">>}

ExampleMarkers ==
    {<<>>,
     <<"5">>,
     <<"(", "5", ")">>,
     <<"a">>,
     <<"(", "a", ")">>,
     <<"A">>,
     <<"(", "A", ")">>,
     <<"i">>,
     <<"v", ".">>,
     <<"(", "c", ")">>,
     <<"(", "D", ")">>,
     <<"(", "i", "v", ")">>,
     <<"M">>,
     <<"2", "-", "a", "b">>,
     <<"(", "2", "-", "a", "b", ")">>,
     <<"2", "-", "a", "b", ".">>,
     <<"1", "2", "-", "B">>,
     <<"(", "1", "2", "-", "B", ")">>,
     <<"1", "2", "-", "B", ".">>,
     <<"L", "t", "d", ".">>,
     <<";", ":">>,
     <<"(", "(", "a", ")", ")">>,
     <<" ", "(", "a", ")", " ">>,
     <<"(", "a", "\n", ")">>,
     <<"i", ")">>,
     <<"(", "a", ".">>,
     <<"1", ")">>,
     <<"a", ")">>,
     <<"(", "1", ".">>,
     <<"2", "-", "a", ")">>}

MarkerInputs ==
    {p \o c \o x : p \in MarkerPrefixes, c \in SeqsUpTo(CoreAlphabet, MaxCore),
                   x \in MarkerSuffixes} \cup ExampleMarkers

Vocabulary ==
    {<<"x">>,
     <<"x", ",">>,
     <<"1", ".">>,
     <<"(", "a", ")">>,
     <<"(", "B", ")">>,
     <<"i", "v", ".">>,
     <<"2", "-", "a">>,
     <<"o", "r">>,
     <<"A", "N", "D">>}

\* what separates the words of a body before it is normalized
RawSeparators == {<<" ">>, <<"\n", " ">>, <<"\\", "n">>}

ExampleBody == <<"N", "o", " ", "p", "e", "r", "s", "o", "n", " ", "s", "h", "a", "l", "l", " ", "a", "c", "t", " ", "u", "n", "l", "e", "s", "s", ",", " ", "1", ".", " ", "l", "i", "c", "e", "n", "s", "e", "d", ",", " ", "o", "r", " ", "2", ".", " ", "e", "x", "e", "m", "p", "t", ".">>

ExampleBodies ==
    {<<"N", "o", " ", "p", "e", "r", "s", "o", "n", " ", "s", "h", "a", "l", "l", " ", "a", "c", "t", " ", "u", "n", "l", "e", "s", "s", ",", " ", "1", ".", " ", "l", "i", "c", "e", "n", "s", "e", "d", ",", " ", "o", "r", " ", "2", ".", " ", "e", "x", "e", "m", "p", "t", ".">>,
     <<"a", "s", " ", "p", "r", "o", "v", "i", "d", "e", "d", " ", "i", "n", " ", "S", "e", "c", "t", "i", "o", "n", " ", "2", ".", " ", "T", "h", "e", " ", "c", "o", "u", "r", "t", " ", "s", "h", "a", "l", "l">>,
     <<"a", "s", " ", "p", "r", "o", "v", "i", "d", "e", "d", " ", "i", "n", " ", "S", "e", "c", "t", "i", "o", "n", "s", " ", "1", ",", " ", "2", ".", " ", "T", "h", "e", " ", "c", "o", "u", "r", "t", " ", "s", "h", "a", "l", "l">>,
     <<"x", ";", " ", "a", "n", "d", " ", "(", "2", ")", " ", "y", ":", " ", "O", "r", " ", "(", "D", ")", " ", "z">>}

\* the bodies format_statute_text is called on: every caller passes the
\* result of normalize_statute_text
BodyInputs ==
    {normalize_statute_text(Join(ws, sep)) :
        ws \in SeqsUpTo(Vocabulary, MaxWords), sep \in RawSeparators}
        \cup {normalize_statute_text(b) : b \in ExampleBodies}

LineLeads == {<<>>, <<" ", " ">>, <<" ", " ", " ", " ", " ", " ">>}

LineContents ==
    {<<"x">>,
     <<"1", ".", " ", "x">>,
     <<"(", "a", ")", " ", "x">>,
     <<"(", "i", "v", ")", " ", "x">>,
     <<"2", "-", "a", ".", " ", "x">>,
     <<"a", ".", "b">>,
     <<"(", "B", ")", "x">>,
     <<"1", ".", "5">>}

LineInputs == {l \o c : l \in LineLeads, c \in LineContents} \cup {<<>>}

\* line feeds after the last line
TextTails == {<<>>, <<"\n">>}

TextInputs ==
    {Join(ls, <<"\n">>) \o t : ls \in SeqsUpTo(LineInputs, MaxLines),
                               t \in TextTails}

MaxNodes == 3

\* the fields of the nodes the trees are built from: complete nodes, nodes
\* with a null or absent title or docLevelId, and a node with neither docType
\* nor docLevelId; leafHasDocuments says whether a node without children
\* still has a "documents" entry
NodeKinds ==
    {[docType |-> <<"A", "R", "T", "I", "C", "L", "E">>, docLevelId |-> <<"2">>,
      title |-> Absent,
      locationId |-> <<"A", "2">>, leafHasDocuments |-> TRUE],
     [docType |-> <<"S", "E", "C", "T", "I", "O", "N">>, docLevelId |-> <<"1", "0", "0">>,
      title |-> <<"S", "h", "o", "r", "t", " ", "t", "i", "t", "l", "e">>,
      locationId |-> <<"S", "E", "C", "1", "0", "0">>, leafHasDocuments |-> FALSE],
     [docType |-> <<"S", "E", "C", "T", "I", "O", "N">>, docLevelId |-> Absent,
      title |-> Null,
      locationId |-> <<"S", "1">>, leafHasDocuments |-> TRUE],
     [docType |-> <<"S", "E", "C", "T", "I", "O", "N">>, docLevelId |-> Null,
      title |-> <<"T">>,
      locationId |-> <<"S", "2">>, leafHasDocuments |-> FALSE],
     [docType |-> <<"A", "R", "T", "I", "C", "L", "E">>, docLevelId |-> Null,
      title |-> <<"T">>,
      locationId |-> <<"A">>, leafHasDocuments |-> TRUE],
     [docType |-> Absent, docLevelId |-> Absent,
      title |-> Absent,
      locationId |-> <<"X">>, leafHasDocuments |-> FALSE]}

MakeNode(kind, items) ==
    [docType |-> kind.docType, docLevelId |-> kind.docLevelId,
     title |-> kind.title, locationId |-> kind.locationId,
     hasDocuments |-> (items # <<>> \/ kind.leafHasDocuments),
     items |-> items]

RECURSIVE TreesOfSize(_), ForestsOfSize(_)

\* the ordered trees of n nodes
TreesOfSize(n) ==
    {MakeNode(k, f) : k \in NodeKinds, f \in ForestsOfSize(n - 1)}

\* the sequences of trees of n nodes together
ForestsOfSize(n) ==
    IF n = 0 THEN {<<>>}
    ELSE UNION {{<<t>> \o f : t \in TreesOfSize(m), f \in ForestsOfSize(n - m)} :
                   m \in 1..n}

\* a root with two children, the first with a child of its own
DeepTrees ==
    {MakeNode(r, <<MakeNode(a, <<MakeNode(c, <<>>)>>), MakeNode(b, <<>>)>>) :
        r \in NodeKinds, a \in NodeKinds, c \in NodeKinds, b \in NodeKinds}

\* what list_statutes and format_statutes find under result.documents
TreeInputs ==
    UNION {TreesOfSize(n) : n \in 1..MaxNodes} \cup DeepTrees \cup {EmptyObject}

MaxBytes == 3

\* the bytes of the bodies: space, quote, "1", ",", "[", "]", "{", "}", the
\* two bytes of U+00E9, and 255, which no UTF-8 text holds
ByteAlphabet == {32, 34, 49, 44, 91, 93, 123, 125, 195, 169, 255}

HttpCodes == {401, 404, 500}

HttpReasons ==
    {<<"U", "n", "a", "u", "t", "h", "o", "r", "i", "z", "e", "d">>,
     <<"N", "o", "t", " ", "F", "o", "u", "n", "d">>,
     <<"I", "n", "t", "e", "r", "n", "a", "l", " ", "S", "e", "r", "v", "e", "r", " ", "E", "r", "r", "o", "r">>}

UrlReasons ==
    {<<"[", "E", "r", "r", "n", "o", " ", "1", "1", "1", "]", " ", "C", "o", "n", "n", "e", "c", "t", "i", "o", "n", " ", "r", "e", "f", "u", "s", "e", "d">>,
     <<"t", "i", "m", "e", "d", " ", "o", "u", "t">>}

\* what urlopen and resp.read() do: HTTPError, URLError, or the bytes read
ResponseInputs ==
    {[kind |-> "HTTPError", code |-> c, reason |-> r, raw |-> <<>>] :
        c \in HttpCodes, r \in HttpReasons}
    \cup {[kind |-> "URLError", code |-> 0, reason |-> r, raw |-> <<>>] :
             r \in UrlReasons}
    \cup {[kind |-> "body", code |-> 200, reason |-> <<"O", "K">>, raw |-> b] :
             b \in SeqsUpTo(ByteAlphabet, MaxBytes)}

MaxRawWords == 3

\* whitespace in front of, between and behind the words of a body that has
\* not been normalized
RawPads == {<<>>, <<" ">>, <<"\n", "\t">>}

RawGaps == {<<" ">>, <<"\n", " ">>, <<"\t">>}

\* bodies as format_statute_text accepts them: any text
RawBodies ==
    {p \o Join(ws, g) \o q :
        ws \in SeqsUpTo(Vocabulary, MaxRawWords), g \in RawGaps,
        p \in RawPads, q \in RawPads}
        \cup ExampleBodies

MaxKeyLen == 2

\* keys, file contents and environment values: "k" among spaces and line
\* feeds
KeyTexts == SeqsUpTo({"k", " ", "\n"}, MaxKeyLen)

KeyFilePath == <<"a", "p", "i", "_", "k", "e", "y", ".", "t", "x", "t">>

\* --key is a string or None, --key-file a path or None (the GUI passes None
\* for an empty entry), the file exists or not, the variable is set or not
KeyInputs ==
    [key : KeyTexts \cup {Null},
     key_file : {KeyFilePath, Null},
     file : KeyTexts \cup {Absent},
     env : KeyTexts \cup {Absent}]

MaxPipeWords == 3

PipeLaws == {<<"P", "E", "N">>, <<"p", "e", "n">>, <<"E", "D", "N">>}

\* a body longer than the widths of wrap_text
LongBody == <<"x", ":", " ", "(", "a", ")", " ", "T", "h", "e", " ", "c", "o", "m", "m", "i", "s", "s", "i", "o", "n", "e", "r", " ", "s", "h", "a", "l", "l", " ", "a", "d", "o", "p", "t", " ", "r", "u", "l", "e", "s", " ", "f", "o", "r", " ", "t", "h", "e", " ", "l", "i", "c", "e", "n", "s", "i", "n", "g", " ", "o", "f", " ", "e", "v", "e", "r", "y", " ", "p", "e", "r", "s", "o", "n", " ", "w", "h", "o", " ", "a", "c", "t", "s", " ", "a", "s", " ", "a", " ", "b", "r", "o", "k", "e", "r", ".">>

\* the statute bodies the API returns, after strip_html
PipeBodies ==
    {Join(ws, <<" ">>) : ws \in SeqsUpTo(Vocabulary, MaxPipeWords)}
        \cup ExampleBodies \cup {LongBody}

-----------------------------------------------------------------------------
(* The drivers: each draws an argument and applies the function *)

Idle == <<>>

\* no document tree has been drawn
WalkIdle == root = Idle /\ out_lines = Idle /\ printed = Idle /\ statutes = Idle

\* no request has been drawn
ApiIdle == response = Idle /\ outcome = Idle

\* no front end has been started
GuiIdle ==
    /\ gui = Idle /\ fields = Idle /\ phase = Idle /\ busy = Idle
    /\ workers = Idle /\ afterq = Idle /\ clicks = Idle /\ tally = Idle

\* no statute has been fetched
PipeIdle == law = Idle /\ fetched = Idle /\ shown = Idle

\* no key has been looked for
KeyIdle == keyInput = Idle /\ keyResult = Idle

RestIdle == WalkIdle /\ ApiIdle /\ GuiIdle /\ PipeIdle /\ KeyIdle

TextIdle ==
    /\ marker = Idle /\ indent = Idle
    /\ body = Idle /\ once = Idle /\ twice = Idle
    /\ text = Idle /\ onceInd = Idle /\ twiceInd = Idle

NonWalkIdle == TextIdle /\ ApiIdle /\ GuiIdle /\ PipeIdle /\ KeyIdle

NonApiIdle == TextIdle /\ WalkIdle /\ GuiIdle /\ PipeIdle /\ KeyIdle

NonGuiIdle == TextIdle /\ WalkIdle /\ ApiIdle /\ PipeIdle /\ KeyIdle

NonPipeIdle == TextIdle /\ WalkIdle /\ ApiIdle /\ GuiIdle /\ KeyIdle

NonKeyIdle == TextIdle /\ WalkIdle /\ ApiIdle /\ GuiIdle /\ PipeIdle

InitMarker ==
    /\ pc = "marker"
    /\ marker \in MarkerInputs
    /\ indent = Idle
    /\ body = Idle /\ once = Idle /\ twice = Idle
    /\ text = Idle /\ onceInd = Idle /\ twiceInd = Idle
    /\ RestIdle

\* indent = marker_indent(marker)
MarkerIndentCall ==
    /\ pc = "marker"
    /\ indent' = marker_indent(marker)
    /\ pc' = "marker_done"
    /\ UNCHANGED <<restVars, marker, body, once, twice, text, onceInd, twiceInd>>

NextMarker == MarkerIndentCall

SpecMarker == InitMarker /\ [][NextMarker]_vars

InitFormat ==
    /\ pc = "body"
    /\ body \in BodyInputs
    /\ once = Idle /\ twice = Idle
    /\ marker = Idle /\ indent = Idle
    /\ text = Idle /\ onceInd = Idle /\ twiceInd = Idle
    /\ RestIdle

\* once = format_statute_text(body)
FormatCall ==
    /\ pc = "body"
    /\ once' = format_statute_text(body)
    /\ pc' = "formatted"
    /\ UNCHANGED <<restVars, marker, indent, body, twice, text, onceInd, twiceInd>>

\* twice = format_statute_text(once)
FormatAgain ==
    /\ pc = "formatted"
    /\ twice' = format_statute_text(once)
    /\ pc' = "reformatted"
    /\ UNCHANGED <<restVars, marker, indent, body, once, text, onceInd, twiceInd>>

NextFormat == FormatCall \/ FormatAgain

SpecFormat == InitFormat /\ [][NextFormat]_vars

InitIndent ==
    /\ pc = "text"
    /\ text \in TextInputs
    /\ onceInd = Idle /\ twiceInd = Idle
    /\ marker = Idle /\ indent = Idle
    /\ body = Idle /\ once = Idle /\ twice = Idle
    /\ RestIdle

\* onceInd = apply_marker_indents(text)
ApplyCall ==
    /\ pc = "text"
    /\ onceInd' = apply_marker_indents(text)
    /\ pc' = "indented"
    /\ UNCHANGED <<restVars, marker, indent, body, once, twice, text, twiceInd>>

\* twiceInd = apply_marker_indents(onceInd)
ApplyAgain ==
    /\ pc = "indented"
    /\ twiceInd' = apply_marker_indents(onceInd)
    /\ pc' = "reindented"
    /\ UNCHANGED <<restVars, marker, indent, body, once, twice, text, onceInd>>

NextIndent == ApplyCall \/ ApplyAgain

SpecIndent == InitIndent /\ [][NextIndent]_vars

InitWalk ==
    /\ pc = "tree"
    /\ root \in TreeInputs
    /\ out_lines = Idle /\ printed = Idle /\ statutes = Idle
    /\ NonWalkIdle

\* lines = []; walk_documents(root, [], lines)
WalkCall ==
    /\ pc = "tree"
    /\ root # EmptyObject
    /\ out_lines' = walk_documents(root, <<>>, <<>>)
    /\ pc' = "walked"
    /\ UNCHANGED <<nonWalkVars, root, printed, statutes>>

ListStatutesCall ==
    /\ pc = "tree"
    /\ printed' = list_statutes(root)
    /\ pc' = "listed"
    /\ UNCHANGED <<nonWalkVars, root, out_lines, statutes>>

FormatStatutesCall ==
    /\ pc = "tree"
    /\ statutes' = format_statutes(root)
    /\ pc' = "statutes"
    /\ UNCHANGED <<nonWalkVars, root, out_lines, printed>>

NextWalk == WalkCall \/ ListStatutesCall \/ FormatStatutesCall

SpecWalk == InitWalk /\ [][NextWalk]_vars

InitApi ==
    /\ pc = "request"
    /\ response \in ResponseInputs
    /\ outcome = Idle
    /\ NonApiIdle

ApiGetCall ==
    /\ pc = "request"
    /\ outcome' = api_get(response)
    /\ pc' = "responded"
    /\ UNCHANGED <<nonApiVars, response>>

NextApi == ApiGetCall

SpecApi == InitApi /\ [][NextApi]_vars

-----------------------------------------------------------------------------
(* The two graphical front ends: handlers, worker threads, after-callbacks *)

MaxClicks == 2

\* the controls that start a worker
BaseControls ==
    {"list_laws_btn", "list_statutes_btn", "statute_text_btn", "save_pdf_btn",
     "refresh_btn"}

FullControls ==
    BaseControls \cup {"print_btn", "law_combo", "statute_list", "statute_entry"}

ControlsOf(g) == IF g = "base" THEN BaseControls ELSE FullControls

\* the handler a control is bound to
HandlerOf(c) ==
    CASE c = "list_laws_btn" -> "_run_list_laws"
      [] c = "refresh_btn" -> "_run_load_laws"
      [] c \in {"list_statutes_btn", "law_combo"} -> "_run_list_statutes"
      [] c \in {"statute_text_btn", "statute_list", "statute_entry"}
             -> "_run_statute_text"
      [] c = "save_pdf_btn" -> "_run_save_pdf"
      [] c = "print_btn" -> "_run_print"

\* the controls _set_busy disables
BusyControls(g) ==
    {"list_laws_btn", "list_statutes_btn", "statute_text_btn", "save_pdf_btn"}
        \cup (IF g = "full" THEN {"law_combo", "statute_list"} ELSE {})

CanUse(c) == c \in ControlsOf(gui) /\ (c \in BusyControls(gui) => ~busy)

NeedsLaw(h) ==
    h \in {"_run_list_statutes", "_run_statute_text", "_run_save_pdf",
           "_run_print"}

NeedsLocation(h) == h \in {"_run_statute_text", "_run_save_pdf", "_run_print"}

\* what a handler does before the request: the test of the law ID and the
\* location ID, then _get_key(), which raises SystemExit without a key
Precheck(h, f) ==
    IF (NeedsLaw(h) /\ ~f.law) \/ (NeedsLocation(h) /\ ~f.loc)
    THEN "ValueError"
    ELSE IF ~f.key THEN "SystemExit"
    ELSE "return"

\* how api_get ends
ApiOutcomes == {"return", "SystemExit", "UnicodeDecodeError"}

Handlers == {HandlerOf(c) : c \in FullControls}

\* the worker threads: how many threads of each handler are at the start of
\* task() and how many are before func()
NoWorkers == [w \in Handlers \X {"start", "func"} |-> 0]

\* threading.Thread(target=task, daemon=True).start() for handler h
Started(ws, h) == [ws EXCEPT ![<<h, "start">>] = @ + 1]

\* a thread of h goes from the start of task() to func()
Moved(ws, h) == [ws EXCEPT ![<<h, "start">>] = @ - 1, ![<<h, "func">>] = @ + 1]

\* a thread of h ends
Finished(ws, h) == [ws EXCEPT ![<<h, "func">>] = @ - 1]

NoFailures == {}

\* a failure and what becomes of it: "shown" in an error dialog, "dropped"
\* without a trace, "traced" on stderr only, or "terminated" the process;
\* the tally holds what has happened to the failures so far
Failed(t, how) == t \cup {how}

InitGui ==
    /\ pc = "gui"
    /\ gui \in {"base", "full"}
    /\ fields \in [key : BOOLEAN, law : {FALSE}, loc : BOOLEAN]
    /\ phase = "constructed"
    /\ busy = FALSE
    /\ workers = NoWorkers
    /\ afterq = <<>>
    /\ clicks = 0
    /\ tally = NoFailures
    /\ NonGuiIdle

\* main(): app._run_load_laws() before root.mainloop(); in nys_law_gui.py
\* _get_key() runs here, in main, and SystemExit ends the program
Startup ==
    /\ phase = "constructed"
    /\ IF gui = "full" /\ ~fields.key
       THEN phase' = "exited" /\ UNCHANGED workers
       ELSE /\ phase' = "mainloop"
            /\ workers' = Started(workers, "_run_load_laws")
    /\ UNCHANGED <<nonGuiVars, pc, gui, fields, busy, afterq, clicks, tally>>

\* the user fills or empties the API key entries
EditKey ==
    /\ phase = "mainloop"
    /\ clicks < MaxClicks
    /\ clicks' = clicks + 1
    /\ fields' = [fields EXCEPT !.key = ~@]
    /\ UNCHANGED <<nonGuiVars, pc, gui, phase, busy, workers, afterq, tally>>

\* the user fills or empties the location entry
EditLocation ==
    /\ phase = "mainloop"
    /\ clicks < MaxClicks
    /\ clicks' = clicks + 1
    /\ fields' = [fields EXCEPT !.loc = ~@]
    /\ UNCHANGED <<nonGuiVars, pc, gui, phase, busy, workers, afterq, tally>>

\* nys_law_gui_base.py: a handler only starts the worker thread
BaseHandler(c) ==
    /\ gui = "base" /\ phase = "mainloop"
    /\ clicks < MaxClicks
    /\ CanUse(c)
    /\ clicks' = clicks + 1
    /\ workers' = Started(workers, HandlerOf(c))
    /\ UNCHANGED <<nonGuiVars, pc, gui, fields, phase, busy, afterq, tally>>

\* task() of a thread of handler h: self._set_busy(True)
BaseTaskStart(h) ==
    /\ gui = "base" /\ phase = "mainloop"
    /\ workers[<<h, "start">>] > 0
    /\ busy' = TRUE
    /\ workers' = Moved(workers, h)
    /\ UNCHANGED <<nonGuiVars, pc, gui, fields, phase, afterq, clicks, tally>>

\* task(): func() under "except Exception", then finally
\* self._set_busy(False).  work() tests the IDs, reads the key and sends the
\* request; an Exception is shown, SystemExit passes the handler and ends
\* the thread, which threading ignores without a word
BaseTaskFunc(h) ==
    /\ gui = "base" /\ phase = "mainloop"
    /\ workers[<<h, "func">>] > 0
    /\ \E r \in ApiOutcomes, found \in BOOLEAN :
           LET pre    == Precheck(h, fields)
               result == IF pre # "return" THEN pre ELSE r
           IN  /\ tally' = IF result = "return" THEN tally
                           ELSE IF result = "SystemExit"
                                THEN Failed(tally, "dropped")
                           ELSE Failed(tally, "shown")
               /\ fields' = IF result = "return" /\ h = "_run_load_laws" /\ found
                            THEN [fields EXCEPT !.law = TRUE]
                            ELSE fields
    /\ busy' = FALSE
    /\ workers' = Finished(workers, h)
    /\ UNCHANGED <<nonGuiVars, pc, gui, phase, afterq, clicks>>

\* what a handler of nys_law_gui.py does in the main thread, with the fields
\* f: ValueError leaves the callback and Tk prints the traceback, SystemExit
\* leaves the main loop, otherwise _run_worker starts the thread.  ready is
\* the file name chosen for Save PDF and the print command found for Print.
FullRun(h, f, ready) ==
    LET pre == Precheck(h, f)
    IN  IF pre = "ValueError"
        THEN /\ tally' = Failed(tally, "traced")
             /\ UNCHANGED <<phase, workers>>
        ELSE IF pre = "SystemExit"
        THEN /\ tally' = Failed(tally, "terminated")
             /\ phase' = "exited"
             /\ UNCHANGED workers
        ELSE IF h = "_run_save_pdf" /\ ~ready
        THEN UNCHANGED <<tally, phase, workers>>
        ELSE IF h = "_run_print" /\ ~ready
        THEN /\ tally' = Failed(tally, "traced")
             /\ UNCHANGED <<phase, workers>>
        ELSE /\ workers' = Started(workers, h)
             /\ UNCHANGED <<tally, phase>>

\* nys_law_gui.py: the handler of a control; a selection in the statute list
\* fills the location first
FullHandler(c) ==
    /\ gui = "full" /\ phase = "mainloop"
    /\ clicks < MaxClicks
    /\ CanUse(c)
    /\ clicks' = clicks + 1
    /\ fields' = IF c = "statute_list" THEN [fields EXCEPT !.loc = TRUE]
                 ELSE fields
    /\ \E ready \in BOOLEAN : FullRun(HandlerOf(c), fields', ready)
    /\ UNCHANGED <<nonGuiVars, pc, gui, busy, afterq>>

\* task() of a thread of handler h:
\* self.master.after(0, lambda: self._set_busy(True))
FullTaskStart(h) ==
    /\ gui = "full" /\ phase = "mainloop"
    /\ workers[<<h, "start">>] > 0
    /\ afterq' = Append(afterq, "_set_busy(True)")
    /\ workers' = Moved(workers, h)
    /\ UNCHANGED <<nonGuiVars, pc, gui, fields, phase, busy, clicks, tally>>

\* task(): func() under "except SystemExit" and "except Exception", then
\* finally: work() sends the request and schedules its update, a failure
\* schedules showerror, and _set_busy(False) is scheduled in both cases
FullTaskFunc(h) ==
    /\ gui = "full" /\ phase = "mainloop"
    /\ workers[<<h, "func">>] > 0
    /\ \E r \in ApiOutcomes, found \in BOOLEAN :
           afterq' = afterq
               \o <<IF r # "return" THEN "showerror"
                    ELSE IF h = "_run_load_laws" /\ found THEN "update_laws"
                    ELSE "update",
                    "_set_busy(False)">>
    /\ workers' = Finished(workers, h)
    /\ UNCHANGED <<nonGuiVars, pc, gui, fields, phase, busy, clicks, tally>>

\* the main loop runs the first scheduled callback; the update of
\* _run_load_laws sets the law and calls _run_list_statutes()
AfterCallback ==
    /\ gui = "full" /\ phase = "mainloop"
    /\ afterq # <<>>
    /\ afterq' = Tail(afterq)
    /\ LET cb == Head(afterq)
       IN  /\ busy' = IF cb = "_set_busy(True)" THEN TRUE
                      ELSE IF cb = "_set_busy(False)" THEN FALSE
                      ELSE busy
           /\ fields' = IF cb = "update_laws" THEN [fields EXCEPT !.law = TRUE]
                        ELSE fields
           /\ IF cb = "update_laws"
              THEN FullRun("_run_list_statutes", fields', TRUE)
              ELSE IF cb = "showerror"
              THEN /\ tally' = Failed(tally, "shown")
                   /\ UNCHANGED <<phase, workers>>
              ELSE UNCHANGED <<tally, phase, workers>>
    /\ UNCHANGED <<nonGuiVars, pc, gui, clicks>>

NextGui ==
    \/ Startup
    \/ EditKey
    \/ EditLocation
    \/ \E c \in BaseControls : BaseHandler(c)
    \/ \E h \in Handlers : BaseTaskStart(h)
    \/ \E h \in Handlers : BaseTaskFunc(h)
    \/ \E c \in FullControls : FullHandler(c)
    \/ \E h \in Handlers : FullTaskStart(h)
    \/ \E h \in Handlers : FullTaskFunc(h)
    \/ AfterCallback

SpecGui == InitGui /\ [][NextGui]_vars

InitRaw ==
    /\ pc = "raw body"
    /\ body \in RawBodies
    /\ once = Idle /\ twice = Idle
    /\ marker = Idle /\ indent = Idle
    /\ text = Idle /\ onceInd = Idle /\ twiceInd = Idle
    /\ RestIdle

\* once = format_statute_text(body) for a body that is not normalized
FormatRawCall ==
    /\ pc = "raw body"
    /\ once' = format_statute_text(body)
    /\ pc' = "raw formatted"
    /\ UNCHANGED <<restVars, marker, indent, body, twice, text, onceInd, twiceInd>>

NextRaw == FormatRawCall

SpecRaw == InitRaw /\ [][NextRaw]_vars

InitKey ==
    /\ pc = "key"
    /\ keyInput \in KeyInputs
    /\ keyResult = Idle
    /\ NonKeyIdle

LoadApiKeyCall ==
    /\ pc = "key"
    /\ keyResult' = load_api_key(keyInput.key, keyInput.key_file,
                                 keyInput.file, keyInput.env)
    /\ pc' = "key loaded"
    /\ UNCHANGED <<nonKeyVars, keyInput>>

NextKey == LoadApiKeyCall

SpecKey == InitKey /\ [][NextKey]_vars

InitPipe ==
    /\ pc = "fetched"
    /\ law \in PipeLaws
    /\ fetched \in PipeBodies
    /\ shown = Idle
    /\ NonPipeIdle

CmdStatuteCall ==
    /\ pc = "fetched"
    /\ shown' = cmd_statute(fetched)
    /\ pc' = "cli"
    /\ UNCHANGED <<nonPipeVars, law, fetched>>

GuiStatuteTextCall ==
    /\ pc = "fetched"
    /\ shown' = GuiStatuteText(law, fetched)
    /\ pc' = "gui text"
    /\ UNCHANGED <<nonPipeVars, law, fetched>>

GuiSavePdfCall ==
    /\ pc = "fetched"
    /\ shown' = GuiSavePdf(law, fetched)
    /\ pc' = "gui pdf"
    /\ UNCHANGED <<nonPipeVars, law, fetched>>

GuiPrintCall ==
    /\ pc = "fetched"
    /\ shown' = GuiPrint(law, fetched)
    /\ pc' = "gui print"
    /\ UNCHANGED <<nonPipeVars, law, fetched>>

BaseStatuteTextCall ==
    /\ pc = "fetched"
    /\ shown' = BaseStatuteText(fetched)
    /\ pc' = "base text"
    /\ UNCHANGED <<nonPipeVars, law, fetched>>

NextPipe ==
    \/ CmdStatuteCall
    \/ GuiStatuteTextCall
    \/ GuiSavePdfCall
    \/ GuiPrintCall
    \/ BaseStatuteTextCall

SpecPipe == InitPipe /\ [][NextPipe]_vars

Init ==
    \/ InitMarker \/ InitFormat \/ InitIndent \/ InitWalk \/ InitApi
    \/ InitGui \/ InitPipe \/ InitRaw \/ InitKey

Next ==
    \/ NextMarker \/ NextFormat \/ NextIndent \/ NextWalk \/ NextApi
    \/ NextGui \/ NextPipe \/ NextRaw \/ NextKey

Spec == Init /\ [][Next]_vars

-----------------------------------------------------------------------------
(* Section 4.1 of the specification, stated on the characters of a marker *)

\* s is not empty and all its characters are in C
AllIn(s, C) == Len(s) > 0 /\ \A k \in 1..Len(s) : s[k] \in C

RomanAnyCase == RomanChars \cup {"I", "V", "X", "L", "C", "D", "M"}

DropFirst(s, c) == IF Len(s) > 0 /\ s[1] = c THEN Tail(s) ELSE s

DropLast(s, c) ==
    IF Len(s) > 0 /\ s[Len(s)] = c THEN SubSeq(s, 1, Len(s) - 1) ELSE s

\* digits, a hyphen, letters
CompoundBody(b) ==
    \E h \in 2..(Len(b) - 1) :
        /\ b[h] = "-"
        /\ AllIn(SubSeq(b, 1, h - 1), Digits)
        /\ AllIn(SubSeq(b, h + 1, Len(b)), Letters)

\* a letter body with a letter that is no roman digit
PlainLetters(b, C) == AllIn(b, C) /\ \E k \in 1..Len(b) : b[k] \notin RomanAnyCase

\* step 3 of section 4.1: the first rule that matches
Level41(b, hasParens) ==
    IF CompoundBody(b) THEN 0
    ELSE IF AllIn(b, Digits) THEN (IF hasParens THEN 3 ELSE 0)
    ELSE IF AllIn(b, RomanAnyCase) THEN 2
    ELSE IF AllIn(b, UpperLetters) THEN (IF hasParens THEN 4 ELSE 1)
    ELSE IF AllIn(b, LowerLetters) THEN 1
    ELSE 0

\* step 1 of section 4.1
HasParens41(m) == Len(m) > 0 /\ m[1] = "(" /\ m[Len(m)] = ")"

\* step 2 of section 4.1 as the claim reads it: the parentheses go only when
\* both are there
Body41(m) ==
    DropLast(IF HasParens41(m) THEN SubSeq(m, 2, Len(m) - 1) ELSE m, ".")

\* step 2 with each parenthesis removed where it is present
BodyEitherParen(m) == DropLast(DropLast(DropFirst(m, "("), ")"), ".")

\* the tokens the two patterns can capture: digits or letters, an optional
\* opening parenthesis, a closing ")" or "."; or digits-hyphen-letter with an
\* optional closer
IsMarkerToken(m) ==
    LET b == DropFirst(m, "(")
        oneLetter(c) == Len(c) >= 3 /\ c[Len(c)] \in Letters
                            /\ c[Len(c) - 1] = "-"
                            /\ AllIn(SubSeq(c, 1, Len(c) - 2), Digits)
    IN  \/ /\ Len(b) >= 2
           /\ b[Len(b)] \in {")", "."}
           /\ \/ AllIn(SubSeq(b, 1, Len(b) - 1), Digits)
              \/ AllIn(SubSeq(b, 1, Len(b) - 1), Letters)
        \/ oneLetter(m)
        \/ /\ Len(m) >= 4
           /\ m[Len(m)] \in {")", "."}
           /\ oneLetter(SubSeq(m, 1, Len(m) - 1))

\* the surface forms of a marker with body b: b, b., (b), (b.)
Wrappings ==
    {[pre |-> <<>>,    post |-> <<>>],
     [pre |-> <<>>,    post |-> <<".">>],
     [pre |-> <<"(">>, post |-> <<")">>],
     [pre |-> <<"(">>, post |-> <<".", ")">>]}

\* the bodies b of which m is a surface form
BodiesOf(m) ==
    {SubSeq(m, Len(w.pre) + 1, Len(m) - Len(w.post)) :
        w \in {v \in Wrappings :
                  /\ Len(m) >= Len(v.pre) + Len(v.post)
                  /\ SubSeq(m, 1, Len(v.pre)) = v.pre
                  /\ SubSeq(m, Len(m) - Len(v.post) + 1, Len(m)) = v.post}}

Parenthesized(m) == Len(m) >= 2 /\ m[1] = "(" /\ m[Len(m)] = ")"

Inner(m) == SubSeq(m, 2, Len(m) - 1)

-----------------------------------------------------------------------------
(* Claims about marker_indent, checked under SpecMarker *)

\* C1 (as stated): for every marker token the patterns can capture,
\* marker_indent returns the indent of the level of section 4.1 with the
\* parentheses removed only when the marker has both of them.
C1_AsStated ==
    (pc = "marker_done" /\ IsMarkerToken(marker))
        => indent = Spaces(2 * Level41(Body41(marker), HasParens41(marker)))

\* C1 (amended): for every marker token the patterns can capture,
\* marker_indent returns the indent of the level of section 4.1 where the body
\* is the marker without its leading "(", without its trailing ")" (each
\* removed where present, also when the other is missing) and without its
\* trailing "."; hasParens still needs both parentheses.
C1_MarkerIndentFollows41 ==
    (pc = "marker_done" /\ IsMarkerToken(marker))
        => indent = Spaces(2 * Level41(BodyEitherParen(marker),
                                        HasParens41(marker)))

\* the one-sided token "a)" has been classified as a lowercase letter
C1_Witness ==
    pc = "marker_done" /\ marker = <<"a", ")">> /\ indent = Spaces(2)

\* C2: every marker whose body consists only of letters from {i,v,x,l,c,d,m}
\* in either case (forms b, b., (b), (b.)) gets level 2, four spaces.
C2_RomanIsLevel2 ==
    (pc = "marker_done" /\ \E b \in BodiesOf(marker) : AllIn(b, RomanAnyCase))
        => indent = Spaces(4)

\* the parenthesized uppercase roman letter "(D)" got four spaces, not eight
C2_Witness ==
    pc = "marker_done" /\ marker = <<"(", "D", ")">> /\ indent = Spaces(4)

\* C3: parentheses raise digit markers (0 to 3) and uppercase-letter markers
\* (1 to 4) but not lowercase-letter markers (1 and 1), for letter bodies
\* that contain a letter outside the roman digits.
C3_ParenRaisesDigitsAndUpper ==
    pc = "marker_done" =>
        /\ AllIn(marker, Digits) => indent = Spaces(0)
        /\ PlainLetters(marker, UpperLetters) => indent = Spaces(2)
        /\ PlainLetters(marker, LowerLetters) => indent = Spaces(2)
        /\ Parenthesized(marker) =>
              /\ AllIn(Inner(marker), Digits) => indent = Spaces(6)
              /\ PlainLetters(Inner(marker), UpperLetters) => indent = Spaces(8)
              /\ PlainLetters(Inner(marker), LowerLetters) => indent = Spaces(2)
        /\ marker = <<"5">> => indent = Spaces(0)
        /\ marker = <<"(", "5", ")">> => indent = Spaces(6)
        /\ marker = <<"a">> => indent = Spaces(2)
        /\ marker = <<"(", "a", ")">> => indent = Spaces(2)
        /\ marker = <<"A">> => indent = Spaces(2)
        /\ marker = <<"(", "A", ")">> => indent = Spaces(8)

\* the parenthesized lowercase letter "(a)" stayed at level 1
C3_Witness ==
    pc = "marker_done" /\ marker = <<"(", "a", ")">> /\ indent = Spaces(2)

\* C4: every marker whose body is digits, a hyphen and letters gets level 0,
\* bare, with a period or in parentheses.
C4_CompoundIsLevel0 ==
    (pc = "marker_done" /\ \E b \in BodiesOf(marker) : CompoundBody(b))
        => indent = <<>>

\* the parenthesized compound marker "(2-a)" got the empty indent
C4_Witness ==
    pc = "marker_done" /\ marker = <<"(", "2", "-", "a", ")">>
        /\ indent = <<>>

\* none of the five patterns of marker_indent matches the cleaned marker
Unrecognized(m) ==
    LET clean == Clean(Strip(m))
    IN  ~(IsCompound(clean) \/ IsDigits(clean) \/ IsRoman(clean)
              \/ IsUpper(clean) \/ IsLower(clean))

\* C5: marker_indent is total: the result is 2 x level spaces with level in
\* 0..4, and a marker matched by none of the five patterns gets level 0.
C5_TotalWithFallback ==
    pc = "marker_done" =>
        /\ \E level \in 0..4 : indent = Spaces(2 * level)
        /\ Unrecognized(marker) => indent = <<>>

\* the mixed-case word "Ltd." fell through to the empty indent
C5_Witness ==
    pc = "marker_done" /\ marker = <<"L", "t", "d", ".">> /\ indent = <<>>
        /\ Unrecognized(marker)

-----------------------------------------------------------------------------
(* Claims about format_statute_text, checked under SpecFormat *)

\* the first word of s: its characters up to the first whitespace
FirstWord(s) ==
    SubSeq(s, 1, SpanEnd(s, 1, {s[k] : k \in 1..Len(s)} \ Whitespace) - 1)

\* the indentation of a line: its leading spaces
LeadOf(line) == SubSeq(line, 1, SpanEnd(line, 1, {" "}) - 1)

\* s ends with t
EndsWith(s, t) ==
    Len(s) >= Len(t) /\ SubSeq(s, Len(s) - Len(t) + 1, Len(s)) = t

\* "and" and "or" in every spelling of upper and lower case
Conjunctions ==
    {<<a, n, d>> : a \in {"a", "A"}, n \in {"n", "N"}, d \in {"d", "D"}}
        \cup {<<o, r>> : o \in {"o", "O"}, r \in {"r", "R"}}

\* the line ends with the punctuation, or with the punctuation, one space and
\* a conjunction
EndsBeforeBreak(line) ==
    \/ Len(line) > 0 /\ line[Len(line)] \in PunctChars
    \/ \E p \in PunctChars, c \in Conjunctions :
           EndsWith(line, <<p, " ">> \o c)

\* the line is the indent of its marker, the marker, one space and more text
StartsAfterBreak(line) ==
    LET lead == LeadOf(line)
        rest == SubSeq(line, Len(lead) + 1, Len(line))
        m    == FirstWord(rest)
    IN  /\ IsMarkerToken(m)
        /\ lead = marker_indent(m)
        /\ Len(rest) >= Len(m) + 2
        /\ rest[Len(m) + 1] = " "
        /\ rest[Len(m) + 2] \notin Whitespace

ExampleFormatted ==
    <<"N", "o", " ", "p", "e", "r", "s", "o", "n", " ", "s", "h", "a", "l", "l", " ", "a", "c", "t", " ", "u", "n", "l", "e", "s", "s", ",", "\n", "1", ".", " ", "l", "i", "c", "e", "n", "s", "e", "d", ",", " ", "o", "r", "\n", "2", ".", " ", "e", "x", "e", "m", "p", "t", ".">>

\* C6: in format_statute_text(body) every line break follows the punctuation
\* or the conjunction after it, every line after the first is the indent of
\* its marker, the marker, one space and text (so no conjunction starts a
\* line), and the example of the specification gives its three lines.
C6_BreakBeforeEachMarker ==
    pc = "formatted" =>
        LET lines == SplitLines(once)
        IN  /\ \A k \in 2..Len(lines) :
                   EndsBeforeBreak(lines[k - 1]) /\ StartsAfterBreak(lines[k])
            /\ body = ExampleBody => once = ExampleFormatted

\* "x, or (B) x" became "x, or" and "(B) x" indented by eight spaces
C6_Witness ==
    /\ pc = "formatted"
    /\ body = <<"x", ",", " ", "o", "r", " ", "(", "B", ")", " ", "x">>
    /\ once = <<"x", ",", " ", "o", "r", "\n">> \o Spaces(8)
                  \o <<"(", "B", ")", " ", "x">>

\* the number of leftmost non-overlapping matches of the pattern from i on
RECURSIVE CountMatches(_, _)
CountMatches(s, i) ==
    IF i > Len(s) THEN 0
    ELSE IF MatchAt(s, i).end # 0 THEN 1 + CountMatches(s, MatchAt(s, i).end)
    ELSE CountMatches(s, i + 1)

\* the number of line feeds of s
CountLF(s) == Cardinality({k \in 1..Len(s) : s[k] = "\n"})

\* C7: one pass, no overlap, no second look at inserted text: the line breaks
\* of format_statute_text(body) are as many as the leftmost non-overlapping
\* matches in body, every new line keeps at least one word after its marker,
\* and a marker that follows a consumed marker stays on its line.
C7_OnePassNoOverlap ==
    pc = "formatted" =>
        /\ CountLF(once) = CountLF(body) + CountMatches(body, 1)
        /\ \A k \in 2..Len(SplitLines(once)) :
               Len(SplitWords(SplitLines(once)[k])) >= 2
        /\ body = <<"x", ",", " ", "1", ".", " ", "(", "a", ")", " ", "x">>
               => once = <<"x", ",", "\n", "1", ".", " ", "(", "a", ")", " ",
                           "x">>

\* "(a)" after the consumed marker "1." did not get a line of its own
C7_Witness ==
    /\ pc = "formatted"
    /\ body = <<"x", ",", " ", "1", ".", " ", "(", "a", ")", " ", "x">>
    /\ once = <<"x", ",", "\n", "1", ".", " ", "(", "a", ")", " ", "x">>

\* C8: format_statute_text is idempotent on normalized bodies.
C8_FormatIdempotent == pc = "reformatted" => twice = once

\* a body with a conjunction and an indented marker was formatted twice and
\* the second pass found the break already made
C8_Witness ==
    /\ pc = "reformatted"
    /\ body = <<"x", ",", " ", "o", "r", " ", "(", "B", ")", " ", "x">>
    /\ CountLF(once) = 1
    /\ twice = once

-----------------------------------------------------------------------------
(* Claims about apply_marker_indents, checked under SpecIndent *)

\* the marker token a line starts with after its leading whitespace, <<>> if
\* its first word is no marker token
LeadingToken(line) ==
    LET m == FirstWord(LStripChars(line, Whitespace))
    IN  IF IsMarkerToken(m) THEN m ELSE <<>>

\* C9 (as stated): every line that starts, after optional whitespace, with a
\* marker token comes out as marker_indent(marker) followed by the line
\* without its leading whitespace.
C9_AsStated ==
    pc = "indented" =>
        LET ins  == SplitLines(text)
            outs == SplitLines(onceInd)
        IN  \A k \in 1..Len(ins) :
                LeadingToken(ins[k]) # <<>> =>
                    /\ k <= Len(outs)
                    /\ outs[k] = marker_indent(LeadingToken(ins[k]))
                                     \o LStripChars(ins[k], Whitespace)

\* C10 (as stated): apply_marker_indents is idempotent on every text.
C10_AsStated == pc = "reindented" => twiceInd = onceInd

\* after its leading whitespace the line starts with a marker token: some
\* prefix of the rest has the shape of a marker
StartsWithMarkerShape(line) ==
    LET r == LStripChars(line, Whitespace)
    IN  \E n \in 1..Len(r) : IsMarkerToken(SubSeq(r, 1, n))

\* C11 (as stated): apply_marker_indents keeps the number of lines and their
\* order, and every line that does not start with a marker comes out exactly
\* as it went in.
C11_AsStated ==
    pc = "indented" =>
        LET ins  == SplitLines(text)
            outs == SplitLines(onceInd)
        IN  /\ Len(outs) = Len(ins)
            /\ \A k \in 1..Len(ins) :
                   ~StartsWithMarkerShape(ins[k]) => outs[k] = ins[k]

-----------------------------------------------------------------------------
(* Section 4.4 of the specification, stated on the document tree *)

IsSection(doc) == doc.docType = StrSECTION

RECURSIVE CountSections(_), CountSectionsIn(_)

\* the SECTION nodes of the tree of doc, doc included
CountSections(doc) ==
    (IF IsSection(doc) THEN 1 ELSE 0) + CountSectionsIn(doc.items)

CountSectionsIn(items) ==
    IF items = <<>> THEN 0
    ELSE CountSections(Head(items)) + CountSectionsIn(Tail(items))

\* C12: walk_documents appends exactly one line for every node of the tree
\* whose docType is SECTION, a SECTION below another SECTION included.
C12_OneLinePerSection ==
    pc = "walked" => Len(out_lines) = CountSections(root)

\* a SECTION with a SECTION child and nothing else has been walked: two lines
C12_Witness ==
    /\ pc = "walked"
    /\ IsSection(root)
    /\ Len(root.items) = 1
    /\ IsSection(root.items[1])
    /\ root.items[1].items = <<>>
    /\ Len(out_lines) = 2

RECURSIVE SectionsPreOrder(_), SectionsPreOrderIn(_)

\* the SECTION nodes of the tree of doc in pre-order: the node, then the
\* subtrees of its children in the order of the items
SectionsPreOrder(doc) ==
    (IF IsSection(doc) THEN <<doc>> ELSE <<>>) \o SectionsPreOrderIn(doc.items)

SectionsPreOrderIn(items) ==
    IF items = <<>> THEN <<>>
    ELSE SectionsPreOrder(Head(items)) \o SectionsPreOrderIn(Tail(items))

\* how the line of a SECTION node ends
LocationSuffix(doc) ==
    <<" ", "(", "l", "o", "c", "a", "t", "i", "o", "n", "I", "d", "=">> \o doc.locationId \o <<")">>

\* C13: the lines are in depth-first pre-order: a node's line, then the lines
\* of its descendants, children in the order of the source items and never
\* sorted; the k-th line is that of the k-th SECTION node in pre-order.
C13_PreOrderSourceOrder ==
    pc = "walked" =>
        LET secs == SectionsPreOrder(root)
        IN  /\ Len(out_lines) = Len(secs)
            /\ \A k \in 1..Len(secs) :
                   EndsWith(out_lines[k], LocationSuffix(secs[k]))

\* a root with the children SEC100 and S1 in this order, SEC100 with the
\* child S2: the lines are SEC100, S2, S1, in no sorted order
C13_Witness ==
    /\ pc = "walked"
    /\ ~IsSection(root)
    /\ Len(root.items) = 2
    /\ root.items[1].locationId = <<"S", "E", "C", "1", "0", "0">>
    /\ Len(root.items[1].items) = 1
    /\ root.items[1].items[1].locationId = <<"S", "2">>
    /\ root.items[2].locationId = <<"S", "1">>
    /\ Len(out_lines) = 3
    /\ EndsWith(out_lines[1], LocationSuffix(root.items[1]))
    /\ EndsWith(out_lines[2], LocationSuffix(root.items[1].items[1]))
    /\ EndsWith(out_lines[3], LocationSuffix(root.items[2]))

\* a field that is missing, absent or null, read as the empty string
FieldOrEmpty(v) == IF v = Null \/ v = Absent THEN <<>> ELSE v

\* the label of a node: docType, a space, docLevelId, trimmed
NodeLabel(doc) ==
    Strip(FieldOrEmpty(doc.docType) \o <<" ">> \o FieldOrEmpty(doc.docLevelId))

\* the non-empty labels of labels, joined by " / "
Breadcrumb(labels) ==
    Join(SelectSeq(labels, LAMBDA l : l # <<>>), <<" ", "/", " ">>)

RECURSIVE BreadcrumbsPreOrder(_, _), BreadcrumbsPreOrderIn(_, _)

\* for the SECTION nodes of the tree of doc in pre-order, the breadcrumb of
\* each: the labels of its proper ancestors, from the root down to its parent
BreadcrumbsPreOrder(doc, labels) ==
    (IF IsSection(doc) THEN <<Breadcrumb(labels)>> ELSE <<>>)
        \o BreadcrumbsPreOrderIn(doc.items, Append(labels, NodeLabel(doc)))

BreadcrumbsPreOrderIn(items, labels) ==
    IF items = <<>> THEN <<>>
    ELSE BreadcrumbsPreOrder(Head(items), labels)
             \o BreadcrumbsPreOrderIn(Tail(items), labels)

\* s starts with t
StartsWith(s, t) == Len(s) >= Len(t) /\ SubSeq(s, 1, Len(t)) = t

\* the line starts with the breadcrumb b and the separator; with an empty
\* breadcrumb the line starts with "::"
HasBreadcrumb(line, b) ==
    IF b = <<>> THEN StartsWith(line, <<":", ":", " ">>)
    ELSE StartsWith(line, b \o <<" ", ":", ":", " ">>)

\* C14 (as stated): for every SECTION node of every tree, the breadcrumb of
\* its line is exactly the non-empty labels (docType, a space, docLevelId,
\* trimmed) of its proper ancestors from the root down to its parent, joined
\* by " / ", with nothing of the node itself, of a sibling or of a subtree
\* visited earlier.
C14_AsStated ==
    pc = "walked" =>
        LET crumbs == BreadcrumbsPreOrder(root, <<>>)
        IN  /\ Len(out_lines) = Len(crumbs)
            /\ \A k \in 1..Len(crumbs) : HasBreadcrumb(out_lines[k], crumbs[k])

\* C15: a tree with no SECTION node at any depth, a single node without
\* children included, is flattened to the empty sequence, and list_statutes
\* and format_statutes then report "No SECTION documents found.".
C15_NoSectionIsEmptyResult ==
    (pc \in {"walked", "listed", "statutes"}
         /\ root # EmptyObject /\ CountSections(root) = 0) =>
        /\ pc = "walked" => out_lines = <<>>
        /\ pc = "listed" => printed = <<NoSectionMessage>>
        /\ pc = "statutes" => statutes = NoSectionMessage

\* list_statutes has printed the message for a single ARTICLE without
\* children
C15_Witness ==
    /\ pc = "listed"
    /\ root # EmptyObject
    /\ ~IsSection(root)
    /\ root.items = <<>>
    /\ printed = <<NoSectionMessage>>

\* <docType> <docLevelId> - <title> (locationId=<locationId>) for a node, a
\* missing field read as empty
NodePart(doc) ==
    Join(SelectSeq(<<FieldOrEmpty(doc.docType), FieldOrEmpty(doc.docLevelId)>>,
                   LAMBDA p : p # <<>>), <<" ">>)
        \o <<" ", "-", " ">> \o FieldOrEmpty(doc.title) \o LocationSuffix(doc)

\* ARTICLE "2" with the single child SECTION "100"
ExampleTree ==
    [docType |-> <<"A", "R", "T", "I", "C", "L", "E">>, docLevelId |-> <<"2">>,
     title |-> Absent, locationId |-> <<"A", "2">>, hasDocuments |-> TRUE,
     items |-> <<[docType |-> StrSECTION, docLevelId |-> <<"1", "0", "0">>,
                  title |-> <<"S", "h", "o", "r", "t", " ", "t", "i", "t", "l", "e">>,
                  locationId |-> <<"S", "E", "C", "1", "0", "0">>,
                  hasDocuments |-> FALSE, items |-> <<>>]>>]

ExampleLine == <<"A", "R", "T", "I", "C", "L", "E", " ", "2", " ", ":", ":", " ", "S", "E", "C", "T", "I", "O", "N", " ", "1", "0", "0", " ", "-", " ", "S", "h", "o", "r", "t", " ", "t", "i", "t", "l", "e", " ", "(", "l", "o", "c", "a", "t", "i", "o", "n", "I", "d", "=", "S", "E", "C", "1", "0", "0", ")">>

\* C16: every line is <breadcrumb> :: <docType> <docLevelId> - <title>
\* (locationId=<locationId>), it neither starts nor ends with a space or a
\* "/" (also for a SECTION at the root, whose breadcrumb is empty), and the
\* tree ARTICLE "2" with the child SECTION "100" gives exactly the line
\* "ARTICLE 2 :: SECTION 100 - Short title (locationId=SEC100)".
C16_LineForm ==
    pc = "walked" =>
        LET secs == SectionsPreOrder(root)
        IN  /\ Len(out_lines) = Len(secs)
            /\ \A k \in 1..Len(secs) :
                   LET line == out_lines[k]
                       tail == <<":", ":", " ">> \o NodePart(secs[k])
                       lead == Len(line) - Len(tail)
                   IN  /\ EndsWith(line, tail)
                       /\ line[1] \notin {" ", "/"}
                       /\ line[Len(line)] \notin {" ", "/"}
                       /\ lead > 0 => (lead > 1 /\ line[lead] = " "
                                                /\ line[lead - 1] # " ")
            /\ root = ExampleTree => out_lines = <<ExampleLine>>

\* the example tree has been walked
C16_Witness ==
    /\ pc = "walked"
    /\ root = ExampleTree
    /\ out_lines = <<ExampleLine>>

\* the line of a SECTION node with the breadcrumb b, every missing field read
\* as the empty string
LineOf(b, doc) ==
    (IF b = <<>> THEN <<>> ELSE b \o <<" ">>) \o <<":", ":", " ">> \o NodePart(doc)

\* C17 (as stated): a missing title or docLevelId (absent or null) and a
\* missing children entry are handled as the empty string and the empty list:
\* the walk goes on over all nodes, and neither a line's label nor the
\* breadcrumb of a descendant holds a placeholder for the missing value.
C17_AsStated ==
    pc = "walked" =>
        LET secs   == SectionsPreOrder(root)
            crumbs == BreadcrumbsPreOrder(root, <<>>)
        IN  /\ Len(out_lines) = Len(secs)
            /\ \A k \in 1..Len(secs) : out_lines[k] = LineOf(crumbs[k], secs[k])

-----------------------------------------------------------------------------
(* Failure handling of the request layer *)

\* a message of one line
OneLine(m) == m # <<>> /\ \A k \in 1..Len(m) : m[k] # "\n"

\* C18 (as stated): api_get ends every failed request (HTTP error status,
\* URL error, a body that is not valid JSON, bytes that are not valid UTF-8)
\* with SystemExit carrying a one-line text, "API request failed: ..." or
\* "API response was not valid JSON.", and with no other exception; on
\* success it returns the parsed JSON.
C18_AsStated ==
    pc = "responded" =>
        LET decoded == Utf8Decode(response.raw)
            parsed  == json_loads(decoded.text)
        IN  IF response.kind = "body" /\ decoded.ok /\ parsed.end # 0
            THEN outcome = Returns(parsed.value)
            ELSE /\ outcome.kind = "SystemExit"
                 /\ OneLine(outcome.message)
                 /\ \/ StartsWith(outcome.message, RequestFailed)
                    \/ outcome.message = NotValidJson

\* C19 (as stated): in both front ends every failure of a user action
\* (missing API key, failed request, malformed JSON, missing law ID or
\* location ID) ends with an error message shown while the application keeps
\* running and its controls are enabled again; no failure is dropped
\* silently or terminates the process, be it SystemExit or another exception,
\* raised in the worker thread or in the event handler.
C19_AsStated ==
    /\ tally \subseteq {"shown"}
    /\ (phase = "mainloop" /\ workers = NoWorkers /\ afterq = <<>>) => ~busy

-----------------------------------------------------------------------------
(* Over-splitting of prose by the segmenter *)

\* prose with "2." after the word "Section"
SectionProse == <<"a", "s", " ", "p", "r", "o", "v", "i", "d", "e", "d", " ", "i", "n", " ", "S", "e", "c", "t", "i", "o", "n", " ", "2", ".", " ", "T", "h", "e", " ", "c", "o", "u", "r", "t", " ", "s", "h", "a", "l", "l">>

\* prose with "2." after a comma
SectionsProse == <<"a", "s", " ", "p", "r", "o", "v", "i", "d", "e", "d", " ", "i", "n", " ", "S", "e", "c", "t", "i", "o", "n", "s", " ", "1", ",", " ", "2", ".", " ", "T", "h", "e", " ", "c", "o", "u", "r", "t", " ", "s", "h", "a", "l", "l">>

\* the line break at k of a formatted body follows a punctuation mark, or a
\* conjunction that follows a punctuation mark and one space
BreakAfterPunctuation(s, k) ==
    \/ k > 1 /\ s[k - 1] \in PunctChars
    \/ \E c \in Conjunctions :
           /\ k - Len(c) > 2
           /\ SubSeq(s, k - Len(c), k - 1) = c
           /\ s[k - Len(c) - 1] = " "
           /\ s[k - Len(c) - 2] \in PunctChars

\* C20 (as stated): for the body "as provided in Section 2. The court shall",
\* where "2." follows the word "Section" and a space, format_statute_text
\* takes "2." for a marker and puts a line break in front of it.
C20_AsStated ==
    (pc = "formatted" /\ body = SectionProse) =>
        once = <<"a", "s", " ", "p", "r", "o", "v", "i", "d", "e", "d", " ", "i", "n", " ", "S", "e", "c", "t", "i", "o", "n">> \o <<"\n">>
                   \o marker_indent(<<"2", ".">>)
                   \o <<"2", ".", " ", "T", "h", "e", " ", "c", "o", "u", "r", "t", " ", "s", "h", "a", "l", "l">>

\* C20 (amended): the segmenter over-splits prose only where a marker-shaped
\* token follows a punctuation mark (with "and" or "or" in between at most):
\* "as provided in Sections 1, 2. The court shall" gets a line break in front
\* of "2.", "as provided in Section 2. The court shall" is returned unchanged,
\* and every line break of a formatted body follows a punctuation mark or a
\* conjunction after one.
C20_OverSplitsAfterPunctuationOnly ==
    pc = "formatted" =>
        /\ body = SectionProse => once = body
        /\ body = SectionsProse =>
               once = <<"a", "s", " ", "p", "r", "o", "v", "i", "d", "e", "d", " ", "i", "n", " ", "S", "e", "c", "t", "i", "o", "n", "s", " ", "1", ",">> \o <<"\n">>
                          \o marker_indent(<<"2", ".">>)
                          \o <<"2", ".", " ", "T", "h", "e", " ", "c", "o", "u", "r", "t", " ", "s", "h", "a", "l", "l">>
        /\ \A k \in 1..Len(once) :
               once[k] = "\n" => BreakAfterPunctuation(once, k)

\* the prose with "2." after the word "Section" has been formatted and is
\* unchanged
C20_Witness ==
    /\ pc = "formatted"
    /\ body = SectionProse
    /\ once = SectionProse

-----------------------------------------------------------------------------
(* The statute pipelines of the three front ends *)

\* what normalize, the segmenter and the re-indentation make of a body
PipelineText(b) ==
    apply_marker_indents(format_statute_text(normalize_statute_text(b)))

\* C21 (as stated): the CLI (cmd_statute), the GUI (_fetch_statute_text) and
\* the base GUI (_get_statute_text) yield the same display text for the same
\* body and any law ID, namely the body normalized, segmented and re-indented,
\* so that the marker indentation of every line is still present in it.
C21_AsStated ==
    pc \in {"cli", "gui text", "base text"} =>
        /\ shown.kind \in {"printed", "shown"}
        /\ shown.text = PipelineText(fetched)
        /\ shown.output = Display(StatuteTitle, PipelineText(fetched))

-----------------------------------------------------------------------------
(* format_statute_text changes whitespace only *)

\* the characters of s that are not whitespace, in order
RECURSIVE NonWhitespace(_)
NonWhitespace(s) ==
    IF s = <<>> THEN <<>>
    ELSE IF Head(s) \in Whitespace THEN NonWhitespace(Tail(s))
    ELSE <<Head(s)>> \o NonWhitespace(Tail(s))

\* C22: format_statute_text changes whitespace only: the non-whitespace
\* characters of the result are those of the body, in the same order, and the
\* result neither starts nor ends with whitespace.
C22_WhitespaceOnly ==
    pc = "raw formatted" =>
        /\ NonWhitespace(once) = NonWhitespace(body)
        /\ once # <<>> =>
               once[1] \notin Whitespace /\ once[Len(once)] \notin Whitespace

\* a body with whitespace at both ends and a conjunction in front of a marker
\* has been formatted, with a line break in the result
C22_Witness ==
    /\ pc = "raw formatted"
    /\ body = <<" ", "x", ",", "\t", "o", "r", "\t", "(", "a", ")", "\n", "\t">>
    /\ once = <<"x", ",", " ", "o", "r", "\n", " ", " ", "(", "a", ")">>

-----------------------------------------------------------------------------
(* One background worker at a time in nys_law_gui.py *)

\* the worker threads that have been started and have not finished
LiveWorkers == {k \in DOMAIN workers : workers[k] > 0}

\* at most one worker thread is alive
AtMostOneWorker ==
    /\ \A k \in LiveWorkers : workers[k] = 1
    /\ \A k1, k2 \in LiveWorkers : k1 = k2

\* C23 (as stated): in nys_law_gui.py at most one background worker runs at a
\* time: from the start of a worker thread until it has finished, every
\* control that can start another worker is disabled, so the controls are
\* never enabled while a worker is still running.
C23_AsStated ==
    (gui = "full" /\ phase = "mainloop") =>
        /\ AtMostOneWorker
        /\ LiveWorkers # {} => \A c \in FullControls : ~CanUse(c)

-----------------------------------------------------------------------------
(* Statute Text, Save PDF and Print of nys_law_gui.py after a successful
   request *)

\* C24 (as stated): in nys_law_gui.py, when the request for a statute
\* succeeds, Statute Text, Save PDF and Print end without an error for every
\* law ID, "PEN" included: the formatted text is shown, the PDF is written and
\* reported as saved or printed; and every function and keyword argument the
\* GUI uses from nys_law_cli exists there.
C24_AsStated ==
    /\ pc = "gui text" =>
           /\ shown.kind = "shown"
           /\ shown.output = Display(StatuteTitle, PipelineText(fetched))
    /\ pc = "gui pdf" => shown.kind = "saved"
    /\ pc = "gui print" => shown.kind = "print job"
    /\ pc \in {"gui text", "gui pdf", "gui print"} =>
           /\ GuiUsedNames \subseteq CliNames
           /\ WritePdfKeywords \subseteq WritePdfParams

-----------------------------------------------------------------------------
(* The precedence of load_api_key *)

\* a value that is given and is more than whitespace
Given(v) == v # Null /\ v # Absent /\ Strip(v) # <<>>

\* C25 (as stated): load_api_key never returns an empty key and picks the
\* key by fixed precedence: the trimmed --key value when one is given,
\* otherwise the trimmed content of the key file when the file exists and is
\* not blank, otherwise the trimmed NYS_LAW_API_KEY value when set, and in
\* every other case, a --key or environment value of whitespace only
\* included, SystemExit with the message "Missing API key. Provide --key,
\* --key-file, or set NYS_LAW_API_KEY.".
C25_AsStated ==
    pc = "key loaded" =>
        /\ keyResult.kind = "return" => keyResult.value # <<>>
        /\ keyResult =
               IF Given(keyInput.key)
               THEN KeyReturned(Strip(keyInput.key))
               ELSE IF keyInput.key_file # Null /\ Given(keyInput.file)
               THEN KeyReturned(Strip(keyInput.file))
               ELSE IF Given(keyInput.env)
               THEN KeyReturned(Strip(keyInput.env))
               ELSE KeyExit(MissingApiKey)

=============================================================================
